---- MODULE Spec2Model ----
(***************************************************************************)
(* A model of the analemma repository's solar-position code:               *)
(*   Solograph          (src/unnamed/part_000)  sunrise/sunset, declination *)
(*   AnalemmaSimulation (src/simulation.js, and its older copy             *)
(*                       src/unnamed/part_001)   equation of time          *)
(*                                                                         *)
(* Numbers.  The JavaScript code computes in IEEE doubles.  The model      *)
(* computes in fixed point: a real x is the integer round(x * Scale), with *)
(* Scale = 10^6, and every product and quotient is rounded to the nearest  *)
(* millionth.  Math.sin, Math.asin, ... are computed (not looked up) by a  *)
(* Taylor polynomial and Newton iterations, accurate to a few millionths.  *)
(* What the model idealises: values the doubles keep as 1e-16 (the sine of *)
(* Math.PI, the cosine of Math.PI/2) are exactly 0 here, and the tangent   *)
(* saturates at TanMax where the double tangent is huge but finite.  The   *)
(* doubles' rounding of a sum to a spacing that grows with the magnitude   *)
(* is modelled (Fl) where the code returns sums that are compared exactly: *)
(* the hours of getSunTimes.                                               *)
(***************************************************************************)
EXTENDS Integers, Sequences, FiniteSets, TLC

(***************************************************************************)
(* Fixed-point arithmetic                                                  *)
(***************************************************************************)
\* a real x is the integer round(x * Scale)
Scale == 1000000
\* the base in which Mul splits its operands
Kilo == 1000

Abs(x) == IF x < 0 THEN -x ELSE x
Sgn(x) == IF x < 0 THEN -1 ELSE 1

\* the JavaScript remainder a % n (n > 0): it has the sign of a
JsMod(a, n) == IF a >= 0 THEN a % n ELSE -((-a) % n)

\* a * b of two fixed-point magnitudes (each below 1000.0), rounded; the
\* operands are split in base 1000 so that no intermediate leaves 32 bits.
MulAbs(a, b) ==
  LET a1 == a \div Kilo
      a0 == a % Kilo
      b1 == b \div Kilo
      b0 == b % Kilo
  IN a1 * b1 + ((a1 * b0 + a0 * b1 + (a0 * b0) \div Kilo + Kilo \div 2) \div Kilo)

\* the JavaScript product a * b
Mul(a, b) == Sgn(a) * Sgn(b) * MulAbs(Abs(a), Abs(b))

\* the JavaScript quotient a / n for a plain integer n > 0, rounded
DivInt(a, n) == Sgn(a) * ((Abs(a) + n \div 2) \div n)

\* x * m / n for plain integers m, n > 0: the quotient is taken first
\* because x * m alone leaves the fixed-point range (360 * 285 days)
MulDivInt(x, m, n) ==
  Sgn(x) * ((Abs(x) \div n) * m + (((Abs(x) % n) * m + n \div 2) \div n))

RECURSIVE DivDigits(_, _, _, _)
DivDigits(q, r, b, n) ==
  IF n = 0 THEN (IF 2 * r >= b THEN q + 1 ELSE q)
  ELSE DivDigits(10 * q + ((10 * r) \div b), (10 * r) % b, b, n - 1)

\* the JavaScript quotient a / b of two fixed-point numbers (b # 0), by long
\* division to six decimals, rounded
Div(a, b) ==
  Sgn(a) * Sgn(b) * DivDigits(Abs(a) \div Abs(b), Abs(a) % Abs(b), Abs(b), 6)

\* The spacing of the doubles doubles with each binade.  The model's doubles
\* have 10^6 values in [1, 2): their spacing is 1 millionth below 2, 2
\* millionths in [2, 4), 4 in [4, 8), ... (below 1 the model stays at 1)
RECURSIVE Ulp(_)
Ulp(a) == IF a < 2 * Scale THEN 1 ELSE 2 * Ulp(a \div 2)

\* q * u + r rounded to a multiple of u, a tie to the even multiple
RoundQuotient(q, r, u) ==
  IF 2 * r < u THEN q * u
  ELSE IF 2 * r > u THEN (q + 1) * u
  ELSE (q + (q % 2)) * u

RoundTo(a, u) == RoundQuotient(a \div u, a % u, u)

\* the double nearest to the exact result x of a JavaScript + or -
Fl(x) == Sgn(x) * RoundTo(Abs(x), Ulp(Abs(x)))

(***************************************************************************)
(* Math.PI and the Math functions the code calls                           *)
(***************************************************************************)
PI == 3141592
HalfPi == PI \div 2
TwoPi == 2 * PI

\* sin x for |x| <= PI/2 by its Taylor polynomial to x^13 in Horner form:
\* x (1 - x2/6 (1 - x2/20 (1 - x2/42 (1 - x2/72 (1 - x2/110 (1 - x2/156))))))
SinDivisors == <<156, 110, 72, 42, 20, 6>>

RECURSIVE SinHorner(_, _, _)
SinHorner(x2, t, k) ==
  IF k > Len(SinDivisors) THEN t
  ELSE SinHorner(x2, Scale - DivInt(Mul(x2, t), SinDivisors[k]), k + 1)

SinPoly(x) == Mul(x, SinHorner(Mul(x, x), Scale, 1))

\* an angle of [-PI, PI] folded to [-PI/2, PI/2] with the same sine
FoldAngle(r) ==
  IF r > HalfPi THEN PI - r ELSE IF r < -HalfPi THEN -PI - r ELSE r

\* Math.sin: the argument is reduced to [-PI, PI], then folded
Sin(x) == SinPoly(FoldAngle(((x + PI) % TwoPi) - PI))

\* Math.cos
Cos(x) == Sin(x + HalfPi)

\* Math.tan = sin / cos; where the cosine is (nearly) 0 the double tangent is
\* huge but finite (tan(Math.PI/2) = 1.6e16): here it saturates at TanMax
TanMax == 1000 * Scale

TanOf(s, c) ==
  IF Abs(s) \div 1000 >= Abs(c)
    THEN Sgn(s) * Sgn(c) * TanMax
    ELSE Div(s, c)

Tan(x) == TanOf(Sin(x), Cos(x))

\* Math.sqrt on [0, 1]: integer Newton iteration from above
SqrtStep(v, y) == (y + Div(v, y)) \div 2

RECURSIVE SqrtIter(_, _, _)
SqrtIter(v, y, n) == IF n >= y THEN y ELSE SqrtIter(v, n, SqrtStep(v, n))

Sqrt(v) == IF v <= 0 THEN 0 ELSE SqrtIter(v, Scale, SqrtStep(v, Scale))

\* asin on [0, 1/2]: three Newton steps y + (x - sin y) / cos y from y = x
RECURSIVE AsinNewton(_, _, _)
AsinNewton(x, y, n) ==
  IF n = 0 THEN y ELSE AsinNewton(x, y + Div(x - Sin(y), Cos(y)), n - 1)

AsinSmall(x) == AsinNewton(x, x, 3)

\* asin on [0, 1]; above 1/2 by the half-angle identity
\* asin x = PI/2 - 2 asin(sqrt((1 - x) / 2)), as the C library does
AsinAbs(ax) ==
  IF ax <= Scale \div 2
    THEN AsinSmall(ax)
    ELSE HalfPi - 2 * AsinSmall(Sqrt((Scale - ax) \div 2))

\* Math.asin on [-1, 1]
Asin(x) == Sgn(x) * AsinAbs(Abs(x))

\* Math.acos on [-1, 1]
Acos(x) == HalfPi - Asin(x)

\* atan t for t in [0, 1]: asin(t / sqrt(1 + t t))
AtanUnit(t) == AsinAbs(Div(t, 2 * Sqrt((Scale + Mul(t, t)) \div 4)))

\* the angle of the point (ax, ay) of the first quadrant, not the origin
AtanAbs(ay, ax) ==
  IF ay <= ax THEN AtanUnit(Div(ay, ax)) ELSE HalfPi - AtanUnit(Div(ax, ay))

\* Math.atan2(y, x) in [-PI, PI]; zeroSign is the sign a zero y carries
\* (JavaScript keeps -0 apart from +0: atan2(-0, x) is -PI for x < 0)
Atan2(y, x, zeroSign) ==
  IF y = 0 THEN (IF x >= 0 THEN 0 ELSE zeroSign * PI)
  ELSE IF x >= 0 THEN Sgn(y) * AtanAbs(Abs(y), x)
  ELSE Sgn(y) * (PI - AtanAbs(Abs(y), -x))

(***************************************************************************)
(* Solograph (src/unnamed/part_000)                                        *)
(***************************************************************************)
\* toRad(deg) = deg * Math.PI / 180
ToRad(deg) == DivInt(Mul(deg, PI), 180)

\* toDeg(rad) = rad * 180 / Math.PI
ToDeg(rad) == Div(rad * 180, PI)

\* this.tilt = 23.44, never assigned again
Solo_tilt == 23440000

springEquinox == 80

\* getDeclination counting the year's angle from day 0, not from the equinox
Solo_getDeclination_fromDayZero(day) ==
  Asin(Mul(Sin(ToRad(Solo_tilt)), Sin(ToRad(MulDivInt(day, 360, 365)))))

\* Solograph.getDeclination(day), in radians
Solo_getDeclination(day) ==
  Asin(Mul(Sin(ToRad(Solo_tilt)),
           Sin(ToRad(MulDivInt(day - springEquinox * Scale, 360, 365)))))

\* the 0.0001 added to both denominators of the azimuth
Solo_epsilon == 100

\* Math.max(-1, Math.min(1, sinAlt))
Clamp(x) == IF x > Scale THEN Scale ELSE IF x < -Scale THEN -Scale ELSE x

\* sinAlt = sin dec sin lat + cos dec cos lat cos ha
SinAltitude(ha, dec, lat) ==
  Mul(Sin(dec), Sin(lat)) + Mul(Mul(Cos(dec), Cos(lat)), Cos(ha))

\* the sign of sinAz = -sin ha cos dec / (...) where it is zero: -0 at
\* ha = 0, and the sign of -sin ha where sin ha is below the resolution
SinAzZeroSign(ha) == IF ha < 0 THEN 1 ELSE -1

\* cosAz = (sin dec - sin lat sinAlt) / (cos lat cos altitude + 0.0001)
Solo_cosAz(dec, lat, sinAlt, altitude) ==
  Div(Sin(dec) - Mul(Sin(lat), sinAlt),
      Mul(Cos(lat), Cos(altitude)) + Solo_epsilon)

\* sinAz = -sin ha cos dec / (cos altitude + 0.0001)
Solo_sinAz(ha, dec, altitude) ==
  Div(Mul(-Sin(ha), Cos(dec)), Cos(altitude) + Solo_epsilon)

\* the returned { altitude, azimuth }, in degrees
Solo_horizontal(ha, dec, lat, sinAlt, altitude) ==
  [altitude |-> ToDeg(altitude),
   azimuth |-> ToDeg(Atan2(Solo_sinAz(ha, dec, altitude),
                           Solo_cosAz(dec, lat, sinAlt, altitude),
                           SinAzZeroSign(ha)))]

Solo_fromSinAlt(ha, dec, lat, sinAlt) ==
  Solo_horizontal(ha, dec, lat, sinAlt, Asin(Clamp(sinAlt)))

Solo_fromRadians(ha, dec, lat) ==
  Solo_fromSinAlt(ha, dec, lat, SinAltitude(ha, dec, lat))

\* Solograph.equatorialToHorizontal(hourAngle, declination, latitude):
\* hourAngle in hours, declination in radians, latitude in degrees
Solo_equatorialToHorizontal(hourAngle, declination, latitude) ==
  Solo_fromRadians(ToRad(hourAngle * 15), declination, ToRad(latitude))

\* { day, altitude: pos.altitude, azimuth: pos.azimuth }
Solo_entryOf(day, pos) ==
  [day |-> day, altitude |-> pos.altitude, azimuth |-> pos.azimuth]

\* a trace entry that takes the clock hour itself for the hour angle
Solo_traceEntry_clockHour(hour, day, lat) ==
  Solo_entryOf(day, Solo_equatorialToHorizontal(hour, Solo_getDeclination(day), lat))

\* the body of initializeHourTraces' inner loop: the entry pushed for a day
Solo_traceEntry(hour, day, lat) ==
  Solo_entryOf(day, Solo_equatorialToHorizontal(hour - 12 * Scale,
                                                Solo_getDeclination(day), lat))

\* the values x takes in for (x = first; x <= last; x += step), in order
ForValues(first, last, step) ==
  [i \in 1 .. (IF first > last THEN 0 ELSE (last - first) \div step + 1) |->
     first + (i - 1) * step]

\* this.hourTraces[hour].push(...) for each day of the loop, in order
Solo_pushDays(days, hour, lat) ==
  [i \in DOMAIN days |-> Solo_traceEntry(hour, days[i], lat)]

\* a trace whose day loop starts at 0, as the loops of sky.js do
Solo_hourTrace_fromDayZero(traces, hour) ==
  Solo_pushDays(ForValues(0, 365 * Scale, Scale), hour, traces.latitude)

\* this.hourTraces[hour] as initializeHourTraces built it:
\* for (let day = 1; day <= 365; day++)
Solo_hourTrace(traces, hour) ==
  Solo_pushDays(ForValues(1 * Scale, 365 * Scale, Scale), hour, traces.latitude)

\* { hour, altitude: pos.altitude, azimuth: pos.azimuth }
Solo_pointOf(hour, pos) ==
  [hour |-> hour, altitude |-> pos.altitude, azimuth |-> pos.azimuth]

Solo_pointAtHour(hour, declination, lat) ==
  Solo_pointOf(hour, Solo_equatorialToHorizontal(hour - 12 * Scale, declination, lat))

\* the body of getSunPath's loop: the point pushed for a minute of the day,
\* hour = minutes / 60
Solo_pathPoint(minutes, declination, lat) ==
  Solo_pointAtHour(DivInt(minutes * Scale, 60), declination, lat)

\* points.push(...) for each minute of the loop, in order
Solo_pushMinutes(minutes, declination, lat) ==
  [k \in DOMAIN minutes |-> Solo_pathPoint(minutes[k], declination, lat)]

\* a day path that starts one step late
Solo_getSunPath_fromFirstStep(day, lat) ==
  Solo_pushMinutes(ForValues(5, 24 * 60 - 1, 5), Solo_getDeclination(day), lat)

\* Solograph.getSunPath(day), reading this.latitude:
\* for (let minutes = 0; minutes < 24 * 60; minutes += 5)
Solo_getSunPath(day, lat) ==
  Solo_pushMinutes(ForValues(0, 24 * 60 - 1, 5), Solo_getDeclination(day), lat)

\* Solograph.getNoonAltitude(day) = 90 - |latitude - toDeg(declination)|
Solo_getNoonAltitude(lat, day) ==
  90 * Scale - Abs(lat - ToDeg(Solo_getDeclination(day)))

\* cosHa with the cosine of the latitude in place of its tangent
Solo_cosHa_cosLatitude(lat, day) ==
  -Mul(Cos(ToRad(lat)), Tan(Solo_getDeclination(day)))

\* the local cosHa of Solograph.getSunTimes(day), this.latitude = lat
Solo_cosHa(lat, day) ==
  -Mul(Tan(ToRad(lat)), Tan(Solo_getDeclination(day)))

\* the returned object with dayLength measured from noon
Solo_timesObject_fromNoon(sunrise, sunset) ==
  [sunrise |-> sunrise, sunset |-> sunset, dayLength |-> Fl(sunset - 12 * Scale)]

\* return { sunrise, sunset, dayLength: sunset - sunrise }: neither flag
Solo_timesObject(sunrise, sunset) ==
  [sunrise |-> sunrise, sunset |-> sunset, dayLength |-> Fl(sunset - sunrise)]

\* the ordinary return with sunset = 24 - ha
Solo_ordinaryTimes_lateSunset(ha) ==
  Solo_timesObject(Fl(12 * Scale - ha), Fl(24 * Scale - ha))

\* the ordinary return of getSunTimes: sunrise = 12 - ha, sunset = 12 + ha,
\* each the nearest double
Solo_ordinaryTimes(ha) ==
  Solo_timesObject(Fl(12 * Scale - ha), Fl(12 * Scale + ha))

\* getSunTimes with the flag of the other polar branch in the midnight sun
Solo_sunTimesOf_otherFlag(cosHa) ==
  IF cosHa < -Scale
    THEN [sunrise |-> 0, sunset |-> 24 * Scale, dayLength |-> 24 * Scale,
          neverRises |-> TRUE]
  ELSE IF cosHa > Scale
    THEN [sunrise |-> 12 * Scale, sunset |-> 12 * Scale, dayLength |-> 0,
          neverRises |-> TRUE]
  ELSE Solo_ordinaryTimes(Fl(DivInt(ToDeg(Acos(cosHa)), 15)))

\* getSunTimes with the polar night returning the hours of the midnight sun
Solo_sunTimesOf_nightAsDay(cosHa) ==
  IF cosHa < -Scale
    THEN [sunrise |-> 0, sunset |-> 24 * Scale, dayLength |-> 24 * Scale,
          neverSets |-> TRUE]
  ELSE IF cosHa > Scale
    THEN [sunrise |-> 0, sunset |-> 24 * Scale, dayLength |-> 24 * Scale,
          neverRises |-> TRUE]
  ELSE Solo_ordinaryTimes(Fl(DivInt(ToDeg(Acos(cosHa)), 15)))

\* the branches of getSunTimes on cosHa.  The three returned object literals
\* have different fields: a flag the literal does not name is absent.
Solo_sunTimesOf(cosHa) ==
  IF cosHa < -Scale
    THEN [sunrise |-> 0, sunset |-> 24 * Scale, dayLength |-> 24 * Scale,
          neverSets |-> TRUE]
  ELSE IF cosHa > Scale
    THEN [sunrise |-> 12 * Scale, sunset |-> 12 * Scale, dayLength |-> 0,
          neverRises |-> TRUE]
  ELSE Solo_ordinaryTimes(Fl(DivInt(ToDeg(Acos(cosHa)), 15)))

(***************************************************************************)
(* Solograph inputs                                                        *)
(***************************************************************************)
\* latitude slider values, in degrees: the poles, both polar circles'
\* neighbourhood (the circle is at 90 - 23.44 = 66.56), mid latitudes, equator
Latitudes ==
  {-90 * Scale, -67 * Scale, -66500000, -40 * Scale, 0, 40 * Scale,
   66500000, 67 * Scale, 90 * Scale}

\* dayOfYear is an integer from the day slider and a fraction while the year
\* animation runs: the days 1 .. 365 in steps of 1/DayDenominator
DayDenominator == 1
DayGrid == {(k * Scale) \div DayDenominator : k \in DayDenominator .. 365 * DayDenominator}

DaySliderValues == {1 * Scale, 80 * Scale, 172 * Scale, 266 * Scale, 355 * Scale, 365 * Scale}
PresetDays == {80 * Scale, 172 * Scale, 266 * Scale, 355 * Scale}

\* cosHa over the input grid, evaluated once
Solo_cosHaTable == [l \in Latitudes, d \in DayGrid |-> Solo_cosHa(l, d)]

Solo_cosHaAt(l, d) ==
  IF l \in Latitudes /\ d \in DayGrid THEN Solo_cosHaTable[l, d]
  ELSE Solo_cosHa(l, d)

\* Solograph.getSunTimes(day) with this.latitude = lat
Solo_getSunTimes(lat, day) == Solo_sunTimesOf(Solo_cosHaAt(lat, day))

\* getSunTimes over the input grid, evaluated once
Solo_sunTimesTable == [l \in Latitudes, d \in DayGrid |-> Solo_getSunTimes(l, d)]

Solo_sunTimesAt(l, d) ==
  IF l \in Latitudes /\ d \in DayGrid THEN Solo_sunTimesTable[l, d]
  ELSE Solo_getSunTimes(l, d)

(***************************************************************************)
(* AnalemmaSimulation (src/simulation.js; older copy src/unnamed/part_001) *)
(* A query reads this.params: p is the params object it is called with.    *)
(***************************************************************************)
DaysPerYear == 365

\* daysSincePerihelion without the + 365
Sim_daysSincePerihelion_noOffset(p, day) ==
  JsMod(day - p.perihelionDay * Scale, DaysPerYear * Scale)

\* daysSincePerihelion = (day - perihelionDay + 365) % 365
Sim_daysSincePerihelion(p, day) ==
  JsMod(day - p.perihelionDay * Scale + DaysPerYear * Scale, DaysPerYear * Scale)

\* getMeanAnomaly(day) = toRad(360 * daysSincePerihelion / 365)
Sim_getMeanAnomaly(p, day) ==
  ToRad(MulDivInt(Sim_daysSincePerihelion(p, day), 360, DaysPerYear))

\* the equation of center C of getTrueAnomaly, e2 = e*e, e3 = e*e*e
Sim_equationOfCenter(e, e2, e3, M) ==
  Mul(2 * e - DivInt(e3, 4), Sin(M))
    + Mul(DivInt(5 * e2, 4), Sin(2 * M))
    + Mul(DivInt(13 * e3, 12), Sin(3 * M))

\* getTrueAnomaly(meanAnomaly) = M + C
Sim_getTrueAnomaly(p, M) ==
  M + Sim_equationOfCenter(p.eccentricity, Mul(p.eccentricity, p.eccentricity),
        Mul(Mul(p.eccentricity, p.eccentricity), p.eccentricity), M)

\* the mean longitude toRad(360 * (day - springEquinox) / 365)
Sim_meanLongitude(day) ==
  ToRad(MulDivInt(day - springEquinox * Scale, 360, DaysPerYear))

\* trueAnomaly - meanAnomaly of getSolarLongitude
Sim_anomalyDifference(p, M) == Sim_getTrueAnomaly(p, M) - M

\* getSolarLongitude(day)
Sim_getSolarLongitude(p, day) ==
  Sim_meanLongitude(day) + Sim_anomalyDifference(p, Sim_getMeanAnomaly(p, day))

\* getSolarDeclination with the default tilt 23.4 in place of params.tilt
Sim_getSolarDeclination_defaultTilt(p, day) ==
  ToDeg(Asin(Mul(Sin(ToRad(23400000)), Sin(Sim_getSolarLongitude(p, day)))))

\* getSolarDeclination(day), in degrees
Sim_getSolarDeclination(p, day) ==
  ToDeg(Asin(Mul(Sin(ToRad(p.tilt)), Sin(Sim_getSolarLongitude(p, day)))))

\* getOrbitalSpeed with the default eccentricity 0.017 in place of
\* params.eccentricity
Sim_getOrbitalSpeed_defaultEccentricity(p, day) ==
  Scale + Mul(17000, Cos(Sim_getTrueAnomaly(p, Sim_getMeanAnomaly(p, day))))

\* getOrbitalSpeed with the sine of the true anomaly in place of its cosine
Sim_getOrbitalSpeed_sine(p, day) ==
  Scale + Mul(p.eccentricity,
              Sin(Sim_getTrueAnomaly(p, Sim_getMeanAnomaly(p, day))))

\* getOrbitalSpeed(day) = 1 + e * cos(trueAnomaly)
Sim_getOrbitalSpeed(p, day) ==
  Scale + Mul(p.eccentricity,
              Cos(Sim_getTrueAnomaly(p, Sim_getMeanAnomaly(p, day))))

\* eccentricityEffect = -2 e sin M - 1.25 e e sin 2M, in radians
Sim_eccentricityEffect(e, M) ==
  Mul(-2 * e, Sin(M)) - Mul(Mul(Mul(1250000, e), e), Sin(2 * M))

\* obliquityEffect = y2 sin 2L - 0.5 y2 y2 sin 4L, in radians
Sim_obliquityEffect(y2, L) ==
  Mul(y2, Sin(2 * L)) - Mul(Mul(Mul(500000, y2), y2), Sin(4 * L))

\* y2 = y * y
Sim_square(y) == Mul(y, y)

\* the two effects getEOTComponents (and the older getEquationOfTime) computes
\* from tilt, eccentricity, perihelionDay and day
Sim_effects(p, day) ==
  [eccentricity |-> Sim_eccentricityEffect(p.eccentricity, Sim_getMeanAnomaly(p, day)),
   obliquity |-> Sim_obliquityEffect(Sim_square(Tan(DivInt(ToRad(p.tilt), 2))),
                                     Sim_meanLongitude(day))]

\* 1 radian = 1440 / (2 PI) minutes
MinutesPerRadian == 229180000


(***************************************************************************)
(* SkySimulation (src/sky.js): its orbital parameters are fixed fields     *)
(***************************************************************************)
Sky_tilt == 23440000
Sky_eccentricity == 16700
Sky_perihelionDay == 3

\* daysFromPerihelion = (day - perihelionDay + 365) % 365
Sky_daysFromPerihelion(day) ==
  JsMod(day - Sky_perihelionDay * Scale + DaysPerYear * Scale, DaysPerYear * Scale)

\* getMeanAnomaly(day) = toRad(360 * daysFromPerihelion / 365)
Sky_getMeanAnomaly(day) ==
  ToRad(MulDivInt(Sky_daysFromPerihelion(day), 360, DaysPerYear))

\* getTrueAnomaly(M) = M + 2 e sin M + 1.25 e e sin 2M
Sky_getTrueAnomaly(M) ==
  M + Mul(2 * Sky_eccentricity, Sin(M))
    + Mul(Mul(Mul(1250000, Sky_eccentricity), Sky_eccentricity), Sin(2 * M))

\* perihelionLongitude = toRad(360 * (perihelionDay - springEquinox) / 365)
Sky_perihelionLongitude ==
  ToRad(MulDivInt((Sky_perihelionDay - springEquinox) * Scale, 360, DaysPerYear))

\* a declination that leaves out the sin(tilt) factor
Sky_getDeclination_untilted(day) ==
  Asin(Sin(Sky_getTrueAnomaly(Sky_getMeanAnomaly(day))
             + Sky_perihelionLongitude + PI))

\* getDeclination(day), in radians
Sky_getDeclination(day) ==
  Asin(Mul(Sin(ToRad(Sky_tilt)),
           Sin(Sky_getTrueAnomaly(Sky_getMeanAnomaly(day))
                 + Sky_perihelionLongitude + PI)))

\* JavaScript's NaN and Infinity, as values apart from every number of the
\* model (all of which are far below 2000 in magnitude)
NaN == 2147483647
Infinity == 2000000000

\* x / d where d may be 0: 0 / 0 is NaN, x / 0 is Infinity with the sign of x
JsDivide(x, d) ==
  IF d # 0 THEN Div(x, d) ELSE IF x = 0 THEN NaN ELSE Sgn(x) * Infinity

\* Math.atan2 with NaN and infinite arguments
JsAtan2(y, x, zeroSign) ==
  IF y = NaN \/ x = NaN THEN NaN
  ELSE IF Abs(y) = Infinity
    THEN (IF Abs(x) = Infinity
            THEN Sgn(y) * (IF x > 0 THEN HalfPi \div 2 ELSE PI - HalfPi \div 2)
            ELSE Sgn(y) * HalfPi)
  ELSE IF Abs(x) = Infinity
    THEN (IF x > 0 THEN 0
          ELSE IF y = 0 THEN zeroSign * PI ELSE Sgn(y) * PI)
  ELSE Atan2(y, x, zeroSign)

\* toDeg of a number or NaN
JsToDeg(rad) == IF rad = NaN THEN NaN ELSE ToDeg(rad)

\* altitude = Math.asin(sinAlt), not clamped: NaN outside [-1, 1]
Sky_altitude(sinAlt) == IF Abs(sinAlt) > Scale THEN NaN ELSE Asin(sinAlt)

\* Math.cos(altitude)
Sky_cosAltitude(altitude) == IF altitude = NaN THEN NaN ELSE Cos(altitude)

\* the divisor of cosAz: Math.cos(lat) * Math.cos(altitude)
Sky_cosAzDivisor(lat, cosAlt) == IF cosAlt = NaN THEN NaN ELSE Mul(Cos(lat), cosAlt)

\* cosAz = (sin dec - sin lat sinAlt) / (cos lat cos altitude)
Sky_cosAz(dec, lat, sinAlt, cosAlt) ==
  IF cosAlt = NaN THEN NaN
  ELSE JsDivide(Sin(dec) - Mul(Sin(lat), sinAlt), Sky_cosAzDivisor(lat, cosAlt))

\* sinAz = -sin ha cos dec / cos altitude
Sky_sinAz(ha, dec, cosAlt) ==
  IF cosAlt = NaN THEN NaN ELSE JsDivide(Mul(-Sin(ha), Cos(dec)), cosAlt)

\* the returned { altitude, azimuth }, in degrees
Sky_horizontal(ha, dec, lat, sinAlt, altitude, cosAlt) ==
  [altitude |-> JsToDeg(altitude),
   azimuth |-> JsToDeg(JsAtan2(Sky_sinAz(ha, dec, cosAlt),
                               Sky_cosAz(dec, lat, sinAlt, cosAlt),
                               SinAzZeroSign(ha)))]

Sky_fromAltitude(ha, dec, lat, sinAlt, altitude) ==
  Sky_horizontal(ha, dec, lat, sinAlt, altitude, Sky_cosAltitude(altitude))

Sky_fromSinAlt(ha, dec, lat, sinAlt) ==
  Sky_fromAltitude(ha, dec, lat, sinAlt, Sky_altitude(sinAlt))

Sky_fromRadians(ha, dec, lat) ==
  Sky_fromSinAlt(ha, dec, lat, SinAltitude(ha, dec, lat))

\* SkySimulation.equatorialToHorizontal(hourAngle, declination, latitude)
Sky_equatorialToHorizontal(hourAngle, declination, latitude) ==
  Sky_fromRadians(ToRad(hourAngle * 15), declination, ToRad(latitude))

(***************************************************************************)
(* AnalemmaSimulation inputs                                               *)
(***************************************************************************)
TiltValues == {0, 23400000, 45 * Scale}
EccentricityValues == {0, 17000}
PerihelionDays == {3, 200}
SpeedValues == {Scale, 2 * Scale}
SimDays == {d * Scale : d \in 0 .. DaysPerYear - 1}
SimDaySliderValues == {0, 80 * Scale, 172 * Scale, 364 * Scale}

\* the orbital fields of a params object
Sim_orbit(t, e, q) == [tilt |-> t, eccentricity |-> e, perihelionDay |-> q]

Sim_onGrid(p, day) ==
  /\ p.tilt \in TiltValues
  /\ p.eccentricity \in EccentricityValues
  /\ p.perihelionDay \in PerihelionDays
  /\ day \in SimDays

\* the queries over the input grid, evaluated once
Sim_effectsTable ==
  [t \in TiltValues, e \in EccentricityValues, q \in PerihelionDays, d \in SimDays |->
     Sim_effects(Sim_orbit(t, e, q), d)]

Sim_declinationTable ==
  [t \in TiltValues, e \in EccentricityValues, q \in PerihelionDays, d \in SimDays |->
     Sim_getSolarDeclination(Sim_orbit(t, e, q), d)]

Sim_speedTable ==
  [e \in EccentricityValues, q \in PerihelionDays, d \in SimDays |->
     Sim_getOrbitalSpeed(Sim_orbit(0, e, q), d)]

Sim_effectsAt(p, day) ==
  IF Sim_onGrid(p, day)
    THEN Sim_effectsTable[p.tilt, p.eccentricity, p.perihelionDay, day]
    ELSE Sim_effects(p, day)

Sim_declinationAt(p, day) ==
  IF Sim_onGrid(p, day)
    THEN Sim_declinationTable[p.tilt, p.eccentricity, p.perihelionDay, day]
    ELSE Sim_getSolarDeclination(p, day)

Sim_speedAt(p, day) ==
  IF Sim_onGrid(p, day)
    THEN Sim_speedTable[p.eccentricity, p.perihelionDay, day]
    ELSE Sim_getOrbitalSpeed(p, day)

\* the object getEOTComponents returns: each effect * 229.18, in minutes
Sim_componentsOf(effects) ==
  [eccentricity |-> Mul(effects.eccentricity, MinutesPerRadian),
   obliquity |-> Mul(effects.obliquity, MinutesPerRadian)]

\* getEOTComponents with the toggles applied to the components themselves
Sim_getEOTComponents_masked(p, day) ==
  [eccentricity |-> IF p.showEccentricityComponent
                      THEN Sim_componentsOf(Sim_effectsAt(p, day)).eccentricity ELSE 0,
   obliquity |-> IF p.showTiltComponent
                   THEN Sim_componentsOf(Sim_effectsAt(p, day)).obliquity ELSE 0]

\* getEOTComponents(day)
Sim_getEOTComponents(p, day) == Sim_componentsOf(Sim_effectsAt(p, day))

\* the sum with the eccentricity component added whatever its toggle
Sim_maskedSum_eccentricityAlways(p, c) ==
  c.eccentricity + (IF p.showTiltComponent THEN c.obliquity ELSE 0)

\* let eot = 0; if (showEccentricityComponent) eot += c.eccentricity;
\* if (showTiltComponent) eot += c.obliquity
Sim_maskedSum(p, c) ==
  (IF p.showEccentricityComponent THEN c.eccentricity ELSE 0)
    + (IF p.showTiltComponent THEN c.obliquity ELSE 0)

\* getEquationOfTime(day) of src/simulation.js, in minutes
Sim_getEquationOfTime(p, day) == Sim_maskedSum(p, Sim_getEOTComponents(p, day))

\* getEquationOfTime(day) of the older copy src/unnamed/part_001: the toggled
\* effects are summed in radians and the sum converted, return eot * 229.18
Old_getEquationOfTime(p, day) ==
  Mul(Sim_maskedSum(p, Sim_effectsAt(p, day)), MinutesPerRadian)

\* what one frame computes for the current day: updateInfo's speed and eot,
\* getInsightText's components, drawAnalemma's currentDecl, and the older
\* copy's updateInfo declination and eot
Sim_frameInfo(p) ==
  [eot |-> Sim_getEquationOfTime(p, p.currentDay),
   components |-> Sim_getEOTComponents(p, p.currentDay),
   speed |-> Sim_speedAt(p, p.currentDay),
   currentDecl |-> IF p.showTiltComponent THEN Sim_declinationAt(p, p.currentDay) ELSE 0,
   declination |-> Sim_declinationAt(p, p.currentDay),
   oldEot |-> Old_getEquationOfTime(p, p.currentDay)]

\* requestAnimationFrame timestamps, in milliseconds: frames arrive
\* FrameMillis apart, and the model follows MaxFrames of them
FrameMillis == 50
MaxFrames == 2

(***************************************************************************)
(* State                                                                   *)
(***************************************************************************)
VARIABLES
  latitude,        \* Solograph.latitude, degrees
  dayOfYear,       \* Solograph.dayOfYear
  times,           \* drawCurrentDay's const times = this.getSunTimes(this.dayOfYear)
  hourTraces,      \* Solograph.hourTraces, held as the latitude and tilt that
                   \* initializeHourTraces computed its entries from
  display,         \* Solograph's five show... checkbox fields
  animation,       \* Solograph.isAnimating, animationSpeed, and the frames run
  params,          \* AnalemmaSimulation.params
  lastTime,        \* AnalemmaSimulation.lastTime, milliseconds
  now,             \* the timestamp of the latest frame callback, milliseconds
  dayAccumulator,  \* AnalemmaSimulation.dayAccumulator, days
  info,            \* what the last frame of AnalemmaSimulation computed
  sky,             \* SkySimulation's fields hour and latitude
  call             \* a call of a query operation: its arguments, then its result

soloVars == <<latitude, dayOfYear, times, hourTraces, display, animation>>
simVars == <<params, lastTime, now, dayAccumulator, info>>
skyVars == <<sky>>
vars == <<latitude, dayOfYear, times, hourTraces, display, animation, params,
          lastTime, now, dayAccumulator, info, sky, call>>

\* this.params of the constructor
Sim_defaultParams ==
  [tilt |-> 23400000, eccentricity |-> 17000, perihelionDay |-> 3,
   speed |-> Scale, currentDay |-> 0, isPlaying |-> TRUE,
   showTiltComponent |-> TRUE, showEccentricityComponent |-> TRUE]

\* initializeHourTraces(): this.hourTraces is rebuilt from this.latitude and
\* this.tilt; its entries are Solo_hourTrace(hourTraces, hour)
Solo_initializeHourTraces(lat) == [latitude |-> lat, tilt |-> Solo_tilt]

\* the checkbox fields and the animation state of the constructor
Solo_defaultDisplay ==
  [showSolstices |-> TRUE, showEquinoxes |-> TRUE, showGrid |-> TRUE,
   showHourMarkers |-> TRUE, showHourTraces |-> TRUE]

\* requestAnimationFrame hands out the ids 1, 2, ...: requested is the last
\* id handed out, pending the ids whose callback has neither run nor been
\* cancelled, animationId the id the object holds (0 for null)
Solo_defaultAnimation ==
  [isAnimating |-> FALSE, animationSpeed |-> Scale, frames |-> 0,
   animationId |-> 0, pending |-> {}, requested |-> 0]

\* new Solograph(): latitude 40, dayOfYear 172, initializeHourTraces() and
\* the first draw()
Solo_constructor ==
  /\ latitude = 40 * Scale
  /\ dayOfYear = 172 * Scale
  /\ times = Solo_sunTimesAt(40 * Scale, 172 * Scale)
  /\ hourTraces = Solo_initializeHourTraces(40 * Scale)
  /\ display = Solo_defaultDisplay
  /\ animation = Solo_defaultAnimation

\* new AnalemmaSimulation(): the constructor ends with this.animate(0), a
\* frame with deltaTime 0 that leaves the day and draws
Sim_constructor ==
  /\ params = Sim_defaultParams
  /\ lastTime = 0
  /\ now = 0
  /\ dayAccumulator = 0
  /\ info = Sim_frameInfo(Sim_defaultParams)

\* new SkySimulation()
Sky_constructor ==
  sky = [hour |-> 12 * Scale, latitude |-> 40 * Scale, isAnimating |-> FALSE,
         animationSpeed |-> Scale, animationId |-> 0, pending |-> {},
         requested |-> 0]

\* no query is being called
NoCall == [fn |-> "none", status |-> "idle"]

Init == Solo_constructor /\ Sim_constructor /\ Sky_constructor /\ call = NoCall

(***************************************************************************)
(* Solograph handlers: each one ends with this.draw()                      *)
(***************************************************************************)
\* Solograph.draw(): drawCurrentDay evaluates getSunTimes for the new state
Solo_draw == times' = Solo_sunTimesAt(latitude', dayOfYear')

\* a latitude handler that leaves the cached traces as they are
Solo_latitudeInput_keepTraces(v) ==
  /\ latitude' = v
  /\ UNCHANGED <<dayOfYear, hourTraces, display, animation>>
  /\ Solo_draw
  /\ UNCHANGED <<simVars, skyVars, call>>

\* latitudeSlider 'input'
Solo_latitudeInput(v) ==
  /\ latitude' = v
  /\ hourTraces' = Solo_initializeHourTraces(latitude')
  /\ UNCHANGED <<dayOfYear, display, animation>>
  /\ Solo_draw
  /\ UNCHANGED <<simVars, skyVars, call>>

\* daySlider 'input'
Solo_dayInput(v) ==
  /\ dayOfYear' = v
  /\ UNCHANGED <<latitude, hourTraces, display, animation>>
  /\ Solo_draw
  /\ UNCHANGED <<simVars, skyVars, call>>

\* .preset-btn 'click'
Solo_presetClick(d) ==
  /\ dayOfYear' = d
  /\ UNCHANGED <<latitude, hourTraces, display, animation>>
  /\ Solo_draw
  /\ UNCHANGED <<simVars, skyVars, call>>

\* window 'resize'
Solo_resize ==
  /\ UNCHANGED <<latitude, dayOfYear, hourTraces, display, animation>>
  /\ Solo_draw
  /\ UNCHANGED <<simVars, skyVars, call>>

SoloNext ==
  \/ \E v \in Latitudes : Solo_latitudeInput(v)
  \/ \E v \in DaySliderValues : Solo_dayInput(v)
  \/ \E d \in PresetDays : Solo_presetClick(d)
  \/ Solo_resize

\* the five checkbox 'change' handlers: the field is set, then draw()
Solo_checkboxChange(shown) ==
  /\ display' = shown
  /\ UNCHANGED <<latitude, dayOfYear, hourTraces, animation>>
  /\ Solo_draw
  /\ UNCHANGED <<simVars, skyVars, call>>

Solo_showSolsticesChange(checked) ==
  Solo_checkboxChange([display EXCEPT !.showSolstices = checked])

Solo_showEquinoxesChange(checked) ==
  Solo_checkboxChange([display EXCEPT !.showEquinoxes = checked])

Solo_showGridChange(checked) ==
  Solo_checkboxChange([display EXCEPT !.showGrid = checked])

Solo_showHourMarkersChange(checked) ==
  Solo_checkboxChange([display EXCEPT !.showHourMarkers = checked])

Solo_showHourTracesChange(checked) ==
  Solo_checkboxChange([display EXCEPT !.showHourTraces = checked])

\* speedSlider 'input': no draw
Solo_speedInput(v) ==
  /\ animation' = [animation EXCEPT !.animationSpeed = v]
  /\ UNCHANGED <<latitude, dayOfYear, times, hourTraces, display>>
  /\ UNCHANGED <<simVars, skyVars, call>>

\* the animation frames modelled after a page load, and the calls of
\* requestAnimationFrame by one page
MaxAnimationFrames == 1
MaxRequests == 2

\* this.animationId = requestAnimationFrame(animate)
RequestFrame(a) ==
  [a EXCEPT !.requested = @ + 1, !.animationId = a.requested + 1,
            !.pending = @ \union {a.requested + 1}]

\* if (this.animationId) { cancelAnimationFrame(this.animationId);
\*                         this.animationId = null; }
CancelFrame(a) ==
  IF a.animationId # 0
    THEN [a EXCEPT !.pending = @ \ {a.animationId}, !.animationId = 0]
    ELSE a

\* a startAnimation without the isAnimating check
Solo_startAnimation_unchecked ==
  /\ animation.requested < MaxRequests
  /\ animation' = RequestFrame([animation EXCEPT !.isAnimating = TRUE])
  /\ UNCHANGED <<latitude, dayOfYear, times, hourTraces, display>>
  /\ UNCHANGED <<simVars, skyVars, call>>

\* animateYearBtn 'click': startAnimation() returns at once when animating
Solo_startAnimation ==
  /\ ~animation.isAnimating
  /\ animation.requested < MaxRequests
  /\ animation' = RequestFrame([animation EXCEPT !.isAnimating = TRUE])
  /\ UNCHANGED <<latitude, dayOfYear, times, hourTraces, display>>
  /\ UNCHANGED <<simVars, skyVars, call>>

\* stopBtn 'click': stopAnimation()
Solo_stopAnimation ==
  /\ animation' = CancelFrame([animation EXCEPT !.isAnimating = FALSE])
  /\ UNCHANGED <<latitude, dayOfYear, times, hourTraces, display>>
  /\ UNCHANGED <<simVars, skyVars, call>>

\* if (this.dayOfYear > 365) this.dayOfYear = 1
Solo_wrapDay(d) == IF d > 365 * Scale THEN Scale ELSE d

\* a frame callback of startAnimation's animate(currentTime), FrameMillis
\* after the last: it returns at once when not animating; otherwise
\* dayOfYear += delta * 30 * animationSpeed, the wrap, draw(), and the
\* request of the next frame
Solo_animationFrame ==
  \E id \in animation.pending :
    IF ~animation.isAnimating
      THEN /\ animation' = [animation EXCEPT !.pending = @ \ {id}]
           /\ UNCHANGED <<latitude, dayOfYear, times, hourTraces, display>>
           /\ UNCHANGED <<simVars, skyVars, call>>
      ELSE /\ animation.frames < MaxAnimationFrames
           /\ animation.requested < MaxRequests
           /\ animation' = RequestFrame([animation EXCEPT !.frames = @ + 1,
                                                          !.pending = @ \ {id}])
           /\ dayOfYear' = Solo_wrapDay(dayOfYear +
                 Mul(Mul(FrameMillis * Kilo, 30 * Scale), animation.animationSpeed))
           /\ UNCHANGED <<latitude, hourTraces, display>>
           /\ Solo_draw
           /\ UNCHANGED <<simVars, skyVars, call>>

SolographNext ==
  \/ SoloNext
  \/ \E c \in BOOLEAN : Solo_showSolsticesChange(c)
  \/ \E c \in BOOLEAN : Solo_showEquinoxesChange(c)
  \/ \E c \in BOOLEAN : Solo_showGridChange(c)
  \/ \E c \in BOOLEAN : Solo_showHourMarkersChange(c)
  \/ \E c \in BOOLEAN : Solo_showHourTracesChange(c)
  \/ \E v \in SpeedValues : Solo_speedInput(v)
  \/ Solo_startAnimation
  \/ Solo_stopAnimation
  \/ Solo_animationFrame

(***************************************************************************)
(* AnalemmaSimulation handlers: they assign params and draw nothing; the   *)
(* next frame draws                                                        *)
(***************************************************************************)
Sim_tiltInput(v) ==
  /\ params' = [params EXCEPT !.tilt = v]
  /\ UNCHANGED <<lastTime, now, dayAccumulator, info, soloVars, skyVars, call>>

Sim_eccentricityInput(v) ==
  /\ params' = [params EXCEPT !.eccentricity = v]
  /\ UNCHANGED <<lastTime, now, dayAccumulator, info, soloVars, skyVars, call>>

Sim_perihelionInput(v) ==
  /\ params' = [params EXCEPT !.perihelionDay = v]
  /\ UNCHANGED <<lastTime, now, dayAccumulator, info, soloVars, skyVars, call>>

Sim_speedInput(v) ==
  /\ params' = [params EXCEPT !.speed = v]
  /\ UNCHANGED <<lastTime, now, dayAccumulator, info, soloVars, skyVars, call>>

Sim_dayInput(v) ==
  /\ params' = [params EXCEPT !.currentDay = v]
  /\ UNCHANGED <<lastTime, now, dayAccumulator, info, soloVars, skyVars, call>>

\* showTiltComponent 'change'
Sim_showTiltChange(checked) ==
  /\ params' = [params EXCEPT !.showTiltComponent = checked]
  /\ UNCHANGED <<lastTime, now, dayAccumulator, info, soloVars, skyVars, call>>

\* showEccentricityComponent 'change'
Sim_showEccentricityChange(checked) ==
  /\ params' = [params EXCEPT !.showEccentricityComponent = checked]
  /\ UNCHANGED <<lastTime, now, dayAccumulator, info, soloVars, skyVars, call>>

\* playPauseBtn 'click'
Sim_playPauseClick ==
  /\ params' = [params EXCEPT !.isPlaying = ~params.isPlaying]
  /\ UNCHANGED <<lastTime, now, dayAccumulator, info, soloVars, skyVars, call>>

\* a reset that also resumes playing
Sim_resetClick_resuming ==
  /\ params' = [params EXCEPT !.tilt = 23400000, !.eccentricity = 17000,
                              !.perihelionDay = 3, !.speed = Scale,
                              !.currentDay = 0, !.isPlaying = TRUE]
  /\ UNCHANGED <<lastTime, now, dayAccumulator, info, soloVars, skyVars, call>>

\* resetBtn 'click': five fields are reset, isPlaying and the toggles are not
Sim_resetClick ==
  /\ params' = [params EXCEPT !.tilt = 23400000, !.eccentricity = 17000,
                              !.perihelionDay = 3, !.speed = Scale,
                              !.currentDay = 0]
  /\ UNCHANGED <<lastTime, now, dayAccumulator, info, soloVars, skyVars, call>>

\* animate's day update without the % 365
Sim_advanced_noWrap(p, acc) ==
  IF p.isPlaying /\ acc >= Scale
    THEN [p EXCEPT !.currentDay = p.currentDay + (acc \div Scale) * Scale]
    ELSE p

\* the params after animate's day update, acc = dayAccumulator + deltaTime *
\* 0.012 * speed: unchanged while paused or acc < 1
Sim_advanced(p, acc) ==
  IF p.isPlaying /\ acc >= Scale
    THEN [p EXCEPT !.currentDay =
            (p.currentDay + (acc \div Scale) * Scale) % (DaysPerYear * Scale)]
    ELSE p

\* an animate that takes the time of a frame only while playing
Sim_frame_timedWhilePlaying(currentTime, acc) ==
  /\ now' = currentTime
  /\ lastTime' = IF params.isPlaying THEN currentTime ELSE lastTime
  /\ params' = Sim_advanced(params, acc)
  /\ dayAccumulator' = IF ~params.isPlaying THEN dayAccumulator
                       ELSE IF acc >= Scale THEN acc % Scale ELSE acc
  /\ info' = Sim_frameInfo(params')
  /\ UNCHANGED <<soloVars, skyVars, call>>

\* animate(currentTime) called at the time currentTime, with acc =
\* dayAccumulator + deltaTime * 0.012 * speed, deltaTime = currentTime - lastTime
Sim_frame(currentTime, acc) ==
  /\ now' = currentTime
  /\ lastTime' = currentTime
  /\ params' = Sim_advanced(params, acc)
  /\ dayAccumulator' = IF ~params.isPlaying THEN dayAccumulator
                       ELSE IF acc >= Scale THEN acc % Scale ELSE acc
  /\ info' = Sim_frameInfo(params')
  /\ UNCHANGED <<soloVars, skyVars, call>>

\* the frame callback that runs FrameMillis after the latest one
Sim_animate ==
  /\ now < MaxFrames * FrameMillis * Scale
  /\ Sim_frame(now + FrameMillis * Scale,
               dayAccumulator + Mul(Mul(now + FrameMillis * Scale - lastTime, 12000),
                                    params.speed))

SimNext ==
  \/ \E v \in TiltValues : Sim_tiltInput(v)
  \/ \E v \in EccentricityValues : Sim_eccentricityInput(v)
  \/ \E v \in PerihelionDays : Sim_perihelionInput(v)
  \/ \E v \in SpeedValues : Sim_speedInput(v)
  \/ \E v \in SimDaySliderValues : Sim_dayInput(v)
  \/ \E c \in BOOLEAN : Sim_showTiltChange(c)
  \/ \E c \in BOOLEAN : Sim_showEccentricityChange(c)
  \/ Sim_playPauseClick
  \/ Sim_resetClick
  \/ Sim_animate

(***************************************************************************)
(* SkySimulation handlers: each one ends with this.draw()                  *)
(***************************************************************************)
SkyHours == {0, 6 * Scale, 12 * Scale, 18 * Scale}

\* hourSlider 'input'
Sky_hourInput(v) ==
  /\ sky' = [sky EXCEPT !.hour = v]
  /\ UNCHANGED <<soloVars, simVars, call>>

\* latitudeSlider 'input'
Sky_latitudeInput(v) ==
  /\ sky' = [sky EXCEPT !.latitude = v]
  /\ UNCHANGED <<soloVars, simVars, call>>

\* speedSlider 'input': no draw
Sky_speedInput(v) ==
  /\ sky' = [sky EXCEPT !.animationSpeed = v]
  /\ UNCHANGED <<soloVars, simVars, call>>

\* animateBtn 'click': startAnimation() returns at once when animating
Sky_startAnimation ==
  /\ ~sky.isAnimating
  /\ sky.requested < MaxRequests
  /\ sky' = RequestFrame([sky EXCEPT !.isAnimating = TRUE])
  /\ UNCHANGED <<soloVars, simVars, call>>

\* stopBtn 'click': stopAnimation()
Sky_stopAnimation ==
  /\ sky' = CancelFrame([sky EXCEPT !.isAnimating = FALSE])
  /\ UNCHANGED <<soloVars, simVars, call>>

\* if (this.hour > 20) this.hour = 4
Sky_wrapHour(h) == IF h > 20 * Scale THEN 4 * Scale ELSE h

\* a frame callback of startAnimation's animate(currentTime), FrameMillis
\* after the last: it returns at once when not animating; otherwise
\* hour += delta * animationSpeed, the wrap, draw(), and the request of the
\* next frame
Sky_animationFrame ==
  /\ \E id \in sky.pending :
       IF ~sky.isAnimating
         THEN sky' = [sky EXCEPT !.pending = @ \ {id}]
         ELSE /\ sky.requested < MaxRequests
              /\ sky' = RequestFrame(
                   [sky EXCEPT !.pending = @ \ {id},
                               !.hour = Sky_wrapHour(sky.hour
                                          + Mul(FrameMillis * Kilo, sky.animationSpeed))])
  /\ UNCHANGED <<soloVars, simVars, call>>

SkyNext ==
  \/ \E v \in SkyHours : Sky_hourInput(v)
  \/ \E v \in Latitudes : Sky_latitudeInput(v)
  \/ \E v \in SpeedValues : Sky_speedInput(v)
  \/ Sky_startAnimation
  \/ Sky_stopAnimation
  \/ Sky_animationFrame

(***************************************************************************)
(* Calls of the query operations.  A caller's call is pending with its     *)
(* arguments; the operation runs and returns its result.  The operations   *)
(* assign no field: the code of each has no assignment to this.            *)
(***************************************************************************)
Pending(f, a) == [fn |-> f, args |-> a, status |-> "pending"]
Returned(c, r) == [fn |-> c.fn, args |-> c.args, status |-> "returned", result |-> r]
IsPending(f) == call.status = "pending" /\ call.fn = f
HasReturned(f) == call.status = "returned" /\ call.fn = f

\* AnalemmaSimulation.getMeanAnomaly(day)
Sim_callGetMeanAnomaly ==
  /\ IsPending("Sim.getMeanAnomaly")
  /\ call' = Returned(call, Sim_getMeanAnomaly(params, call.args.day))
  /\ UNCHANGED <<soloVars, simVars, skyVars>>

\* SkySimulation.getMeanAnomaly(day)
Sky_callGetMeanAnomaly ==
  /\ IsPending("Sky.getMeanAnomaly")
  /\ call' = Returned(call, Sky_getMeanAnomaly(call.args.day))
  /\ UNCHANGED <<soloVars, simVars, skyVars>>

\* AnalemmaSimulation.getSolarDeclination(day), in degrees
Sim_callGetSolarDeclination ==
  /\ IsPending("Sim.getSolarDeclination")
  /\ call' = Returned(call, Sim_getSolarDeclination(params, call.args.day))
  /\ UNCHANGED <<soloVars, simVars, skyVars>>

\* SkySimulation.getDeclination(day), in radians
Sky_callGetDeclination ==
  /\ IsPending("Sky.getDeclination")
  /\ call' = Returned(call, Sky_getDeclination(call.args.day))
  /\ UNCHANGED <<soloVars, simVars, skyVars>>

\* Solograph.getDeclination(day), in radians
Solo_callGetDeclination ==
  /\ IsPending("Solo.getDeclination")
  /\ call' = Returned(call, Solo_getDeclination(call.args.day))
  /\ UNCHANGED <<soloVars, simVars, skyVars>>

\* a read of this.hourTraces[hour], as drawHourTraces does
Solo_callHourTrace ==
  /\ IsPending("Solo.hourTraces")
  /\ call' = Returned(call, Solo_hourTrace(hourTraces, call.args.hour))
  /\ UNCHANGED <<soloVars, simVars, skyVars>>

\* Solograph.getSunPath(day)
Solo_callGetSunPath ==
  /\ IsPending("Solo.getSunPath")
  /\ call' = Returned(call, Solo_getSunPath(call.args.day, latitude))
  /\ UNCHANGED <<soloVars, simVars, skyVars>>

\* AnalemmaSimulation.getTrueAnomaly(meanAnomaly)
Sim_callGetTrueAnomaly ==
  /\ IsPending("Sim.getTrueAnomaly")
  /\ call' = Returned(call, Sim_getTrueAnomaly(params, call.args.meanAnomaly))
  /\ UNCHANGED <<soloVars, simVars, skyVars>>

\* AnalemmaSimulation.getEOTComponents(day)
Sim_callGetEOTComponents ==
  /\ IsPending("Sim.getEOTComponents")
  /\ call' = Returned(call, Sim_getEOTComponents(params, call.args.day))
  /\ UNCHANGED <<soloVars, simVars, skyVars>>

\* AnalemmaSimulation.getEquationOfTime(day)
Sim_callGetEquationOfTime ==
  /\ IsPending("Sim.getEquationOfTime")
  /\ call' = Returned(call, Sim_getEquationOfTime(params, call.args.day))
  /\ UNCHANGED <<soloVars, simVars, skyVars>>

\* AnalemmaSimulation.getOrbitalSpeed(day)
Sim_callGetOrbitalSpeed ==
  /\ IsPending("Sim.getOrbitalSpeed")
  /\ call' = Returned(call, Sim_getOrbitalSpeed(params, call.args.day))
  /\ UNCHANGED <<soloVars, simVars, skyVars>>

\* a getSunTimes that keeps the day it was asked about as the current day
Solo_callGetSunTimes_keepingDay ==
  /\ IsPending("Solo.getSunTimes")
  /\ call' = Returned(call, Solo_getSunTimes(latitude, call.args.day))
  /\ dayOfYear' = call.args.day
  /\ UNCHANGED <<latitude, times, hourTraces, display, animation>>
  /\ UNCHANGED <<simVars, skyVars>>

\* Solograph.getSunTimes(day)
Solo_callGetSunTimes ==
  /\ IsPending("Solo.getSunTimes")
  /\ call' = Returned(call, Solo_getSunTimes(latitude, call.args.day))
  /\ UNCHANGED <<soloVars, simVars, skyVars>>

\* Solograph.getNoonAltitude(day)
Solo_callGetNoonAltitude ==
  /\ IsPending("Solo.getNoonAltitude")
  /\ call' = Returned(call, Solo_getNoonAltitude(latitude, call.args.day))
  /\ UNCHANGED <<soloVars, simVars, skyVars>>

\* Solograph.equatorialToHorizontal(hourAngle, declination, latitude)
Solo_callEquatorialToHorizontal ==
  /\ IsPending("Solo.equatorialToHorizontal")
  /\ call' = Returned(call, Solo_equatorialToHorizontal(call.args.hourAngle,
                              call.args.declination, call.args.latitude))
  /\ UNCHANGED <<soloVars, simVars, skyVars>>

\* a caller issues a query once the last one has returned
IssueQuery(c) ==
  /\ call.status # "pending"
  /\ call' = c
  /\ UNCHANGED <<soloVars, simVars, skyVars>>

\* SkySimulation.equatorialToHorizontal(hourAngle, declination, latitude)
Sky_callEquatorialToHorizontal ==
  /\ IsPending("Sky.equatorialToHorizontal")
  /\ call' = Returned(call, Sky_equatorialToHorizontal(call.args.hourAngle,
                              call.args.declination, call.args.latitude))
  /\ UNCHANGED <<soloVars, simVars, skyVars>>

Next == SolographNext \/ SimNext \/ SkyNext

Spec == Init /\ [][Next]_vars

(***************************************************************************)
(* getSunTimes over every latitude and day of the grid: the Solograph      *)
(* after any latitude and day have been set and drawn                      *)
(***************************************************************************)
SunTimesInit ==
  /\ latitude \in Latitudes
  /\ dayOfYear \in DayGrid
  /\ times = Solo_sunTimesAt(latitude, dayOfYear)
  /\ hourTraces = Solo_initializeHourTraces(latitude)
  /\ display = Solo_defaultDisplay
  /\ animation = Solo_defaultAnimation
  /\ Sim_constructor /\ Sky_constructor /\ call = NoCall

SunTimesSpec == SunTimesInit /\ [][SoloNext]_vars

(***************************************************************************)
(* The equation-of-time queries over every tilt, eccentricity, perihelion  *)
(* day, day and toggle setting of the grid: the simulation after the       *)
(* controls have been set and a frame has drawn, followed by its frames    *)
(***************************************************************************)
EotParams ==
  [tilt : TiltValues, eccentricity : EccentricityValues,
   perihelionDay : PerihelionDays, speed : {Scale}, currentDay : SimDays,
   isPlaying : BOOLEAN, showTiltComponent : BOOLEAN,
   showEccentricityComponent : BOOLEAN]

EotInit ==
  /\ params \in EotParams
  /\ lastTime = 0
  /\ now = 0
  /\ dayAccumulator = 0
  /\ info = Sim_frameInfo(params)
  /\ Solo_constructor /\ Sky_constructor /\ call = NoCall

EotSpec == EotInit /\ [][Sim_animate]_vars

(***************************************************************************)
(* Properties of Solograph.getSunTimes (checked under SunTimesSpec)        *)
(***************************************************************************)
HasFlag(r, f) == f \in DOMAIN r

\* C1: whenever cosHa = -tan(latitude) * tan(declination) is below -1, the
\* result drawn for that latitude and day is sunrise 0, sunset 24,
\* dayLength 24, with neverSets true.
MidnightSunResult ==
  Solo_cosHaAt(latitude, dayOfYear) < -Scale =>
    /\ times.sunrise = 0
    /\ times.sunset = 24 * Scale
    /\ times.dayLength = 24 * Scale
    /\ HasFlag(times, "neverSets") /\ times.neverSets = TRUE

MidnightSunReached ==
  /\ Solo_cosHaAt(latitude, dayOfYear) < -Scale
  /\ latitude = 67 * Scale
  /\ times.dayLength = 24 * Scale

\* C2: whenever cosHa is above 1, the result drawn for that latitude and day
\* is sunrise 12, sunset 12, dayLength 0, with neverRises true.
PolarNightResult ==
  Solo_cosHaAt(latitude, dayOfYear) > Scale =>
    /\ times.sunrise = 12 * Scale
    /\ times.sunset = 12 * Scale
    /\ times.dayLength = 0
    /\ HasFlag(times, "neverRises") /\ times.neverRises = TRUE

PolarNightReached ==
  /\ Solo_cosHaAt(latitude, dayOfYear) > Scale
  /\ latitude = 67 * Scale
  /\ times.dayLength = 0

\* C3: every result of getSunTimes carries both flags neverRises and
\* neverSets, each true or false, never absent.
BothFlagsCarried ==
  /\ HasFlag(times, "neverRises") /\ times.neverRises \in BOOLEAN
  /\ HasFlag(times, "neverSets") /\ times.neverSets \in BOOLEAN

\* C4 (as stated): in every branch sunrise + sunset == 24 and
\* |sunrise - 12| == |sunset - 12|.
SymmetricAroundNoon ==
  /\ Fl(times.sunrise + times.sunset) = 24 * Scale
  /\ Abs(Fl(times.sunrise - 12 * Scale)) = Abs(Fl(times.sunset - 12 * Scale))

\* C4 (amended): in every branch sunrise + sunset == 24; the distances
\* |sunrise - 12| and |sunset - 12| are equal in both polar branches and, in
\* the ordinary branch, agree to within one spacing of the doubles at sunset.
SymmetricWithinRounding ==
  /\ Fl(times.sunrise + times.sunset) = 24 * Scale
  /\ Abs(Abs(Fl(times.sunrise - 12 * Scale)) - Abs(Fl(times.sunset - 12 * Scale))) <= Ulp(times.sunset)
  /\ (HasFlag(times, "neverSets") \/ HasFlag(times, "neverRises")) =>
       Abs(Fl(times.sunrise - 12 * Scale)) = Abs(Fl(times.sunset - 12 * Scale))

\* an ordinary day whose two rounded hours are not equally far from noon
UnequalDistancesReached ==
  /\ ~HasFlag(times, "neverSets") /\ ~HasFlag(times, "neverRises")
  /\ Fl(times.sunrise + times.sunset) = 24 * Scale
  /\ Abs(Fl(times.sunrise - 12 * Scale)) # Abs(Fl(times.sunset - 12 * Scale))

\* C5: for every latitude in [-90, 90] and every day, dayLength lies in
\* [0, 24] and equals sunset - sunrise of the same result.
DayLengthInRange ==
  /\ 0 <= times.dayLength /\ times.dayLength <= 24 * Scale
  /\ times.dayLength = Fl(times.sunset - times.sunrise)

DayLengthOrdinaryReached ==
  /\ ~HasFlag(times, "neverSets") /\ ~HasFlag(times, "neverRises")
  /\ latitude = -40 * Scale
  /\ 0 < times.dayLength /\ times.dayLength < 12 * Scale
  /\ times.dayLength = Fl(times.sunset - times.sunrise)

\* C6 (as stated): at latitude 66.5 getSunTimes(172) reports neverSets true
\* and getSunTimes(355) reports neverRises true.
PolarFlagsAt665 ==
  latitude = 66500000 =>
    /\ dayOfYear = 172 * Scale =>
         HasFlag(times, "neverSets") /\ times.neverSets = TRUE
    /\ dayOfYear = 355 * Scale =>
         HasFlag(times, "neverRises") /\ times.neverRises = TRUE

\* C6 (amended): latitude 66.5 is outside the polar circle of tilt 23.44
\* (90 - 23.44 = 66.56): getSunTimes(172) and getSunTimes(355) take the
\* ordinary branch there, with a day longer than 23 hours and shorter than 1
\* hour and neither flag; at latitude 67 getSunTimes(172) reports neverSets
\* true and getSunTimes(355) reports neverRises true.
PolarFlagsAt67Not665 ==
  /\ (latitude = 66500000 /\ dayOfYear = 172 * Scale) =>
       /\ ~HasFlag(times, "neverSets") /\ ~HasFlag(times, "neverRises")
       /\ 23 * Scale < times.dayLength /\ times.dayLength < 24 * Scale
  /\ (latitude = 66500000 /\ dayOfYear = 355 * Scale) =>
       /\ ~HasFlag(times, "neverSets") /\ ~HasFlag(times, "neverRises")
       /\ 0 < times.dayLength /\ times.dayLength < 1 * Scale
  /\ (latitude = 67 * Scale /\ dayOfYear = 172 * Scale) =>
       HasFlag(times, "neverSets") /\ times.neverSets = TRUE
  /\ (latitude = 67 * Scale /\ dayOfYear = 355 * Scale) =>
       HasFlag(times, "neverRises") /\ times.neverRises = TRUE

OrdinaryDayAt665Reached ==
  /\ latitude = 66500000
  /\ dayOfYear = 172 * Scale
  /\ ~HasFlag(times, "neverSets")
  /\ times.dayLength > 23 * Scale

\* C7: at latitude 0 getSunTimes takes the ordinary branch and returns
\* sunrise 6, sunset 18, dayLength 12 for every day of the year.
EquatorTwelveHours ==
  latitude = 0 =>
    /\ ~HasFlag(times, "neverSets") /\ ~HasFlag(times, "neverRises")
    /\ times.sunrise = 6 * Scale
    /\ times.sunset = 18 * Scale
    /\ times.dayLength = 12 * Scale

EquatorSolsticeReached ==
  /\ latitude = 0
  /\ dayOfYear = 172 * Scale
  /\ times.dayLength = 12 * Scale

(***************************************************************************)
(* Properties of the equation-of-time queries (checked under EotSpec)      *)
(***************************************************************************)
\* C8: the equation of time a frame shows is the sum of exactly the
\* components whose toggle is on, and 0 with both toggles off.  The older
\* getEquationOfTime sums the toggled effects in radians before converting:
\* it is 0 with both off too, and within one rounding of the sum in minutes.
EotIsMaskedSum ==
  /\ info.eot =
       (IF params.showEccentricityComponent THEN info.components.eccentricity ELSE 0)
         + (IF params.showTiltComponent THEN info.components.obliquity ELSE 0)
  /\ info.oldEot =
       Mul((IF params.showEccentricityComponent
              THEN Sim_effectsAt(params, params.currentDay).eccentricity ELSE 0)
             + (IF params.showTiltComponent
                  THEN Sim_effectsAt(params, params.currentDay).obliquity ELSE 0),
           MinutesPerRadian)
  /\ Abs(info.oldEot - info.eot) <= 1
  /\ (~params.showEccentricityComponent /\ ~params.showTiltComponent) =>
       info.eot = 0 /\ info.oldEot = 0

BothTogglesOffReached ==
  /\ ~params.showEccentricityComponent /\ ~params.showTiltComponent
  /\ lastTime > 0
  /\ info.components.eccentricity # 0 /\ info.components.obliquity # 0
  /\ info.eot = 0

\* C9: for fixed day, tilt, eccentricity and perihelionDay, getEOTComponents
\* returns the same two components under all four settings of the toggles.
ComponentsIgnoreToggles ==
  \A a, b \in BOOLEAN :
    Sim_getEOTComponents([params EXCEPT !.showTiltComponent = a,
                                        !.showEccentricityComponent = b],
                         params.currentDay) = info.components

ComponentsUnderMaskReached ==
  /\ ~params.showTiltComponent /\ params.showEccentricityComponent
  /\ info.components.obliquity # 0
  /\ info.eot = info.components.eccentricity
  /\ info.components =
       Sim_getEOTComponents([params EXCEPT !.showTiltComponent = TRUE],
                            params.currentDay)

\* C10: with tilt 0 the declination is 0 and the obliquity component is 0,
\* on every day and for every eccentricity and perihelion day.
ZeroTiltZeroDeclination ==
  params.tilt = 0 =>
    /\ info.declination = 0
    /\ info.currentDecl = 0
    /\ info.components.obliquity = 0

ZeroTiltEccentricOrbitReached ==
  /\ params.tilt = 0
  /\ params.eccentricity = 17000
  /\ params.perihelionDay = 200
  /\ params.currentDay = 172 * Scale
  /\ info.components.eccentricity # 0
  /\ info.declination = 0


\* C11: with eccentricity 0 the eccentricity component is 0 and the orbital
\* speed is exactly 1, on every day and for every tilt and perihelion day.
CircularOrbitUniform ==
  params.eccentricity = 0 =>
    /\ info.components.eccentricity = 0
    /\ info.speed = Scale

CircularOrbitTiltedReached ==
  /\ params.eccentricity = 0
  /\ params.tilt = 45 * Scale
  /\ params.perihelionDay = 200
  /\ params.currentDay = 100 * Scale
  /\ info.components.obliquity # 0
  /\ info.speed = Scale


(***************************************************************************)
(* getMeanAnomaly over every perihelion day 1 .. 365 and every day of      *)
(* [0, 365] in steps of 1/DayDenominator: the perihelion slider has been   *)
(* moved since the last frame, and a caller asks for the mean anomaly      *)
(***************************************************************************)
AnomalyDays ==
  {(k * Scale) \div DayDenominator : k \in 0 .. DaysPerYear * DayDenominator}

MeanAnomalyInit ==
  /\ \/ /\ params \in {[Sim_defaultParams EXCEPT !.perihelionDay = q] :
                          q \in 1 .. DaysPerYear}
        /\ call \in {Pending("Sim.getMeanAnomaly", [day |-> d]) : d \in AnomalyDays}
     \/ /\ params = Sim_defaultParams
        /\ call \in {Pending("Sky.getMeanAnomaly", [day |-> d]) : d \in AnomalyDays}
  /\ lastTime = 0
  /\ now = 0
  /\ dayAccumulator = 0
  /\ info = Sim_frameInfo(Sim_defaultParams)
  /\ Solo_constructor /\ Sky_constructor

MeanAnomalyNext == Sim_callGetMeanAnomaly \/ Sky_callGetMeanAnomaly

MeanAnomalySpec == MeanAnomalyInit /\ [][MeanAnomalyNext]_vars

\* C13: for every day of [0, 365] and every perihelion day 1 .. 365 the
\* days since perihelion are in [0, 365) and getMeanAnomaly returns an angle
\* in [0, 2 PI), which is 0 exactly when day = perihelionDay modulo 365.
MeanAnomalyInRange ==
  /\ HasReturned("Sim.getMeanAnomaly") =>
       /\ 0 <= Sim_daysSincePerihelion(params, call.args.day)
       /\ Sim_daysSincePerihelion(params, call.args.day) < DaysPerYear * Scale
       /\ 0 <= call.result /\ call.result < TwoPi
       /\ (call.result = 0) <=>
            ((call.args.day - params.perihelionDay * Scale) % (DaysPerYear * Scale) = 0)
  /\ HasReturned("Sky.getMeanAnomaly") =>
       /\ 0 <= Sky_daysFromPerihelion(call.args.day)
       /\ Sky_daysFromPerihelion(call.args.day) < DaysPerYear * Scale
       /\ 0 <= call.result /\ call.result < TwoPi
       /\ (call.result = 0) <=>
            ((call.args.day - Sky_perihelionDay * Scale) % (DaysPerYear * Scale) = 0)

DayBeforePerihelionReached ==
  /\ HasReturned("Sim.getMeanAnomaly")
  /\ params.perihelionDay = 200
  /\ call.args.day = 3 * Scale
  /\ Sim_daysSincePerihelion(params, call.args.day) = 168 * Scale
  /\ call.result > 0

(***************************************************************************)
(* The three declination functions over every day of the year, and for    *)
(* the simulation over tilts of the whole valid range                      *)
(***************************************************************************)
DeclinationTilts == {0, 23440000, 45 * Scale, 90 * Scale}

DeclinationInit ==
  /\ \/ /\ params \in {[Sim_defaultParams EXCEPT !.tilt = t, !.eccentricity = e,
                                                 !.perihelionDay = q] :
                          t \in DeclinationTilts, e \in EccentricityValues,
                          q \in PerihelionDays}
        /\ call \in {Pending("Sim.getSolarDeclination", [day |-> d]) : d \in SimDays}
     \/ /\ params = Sim_defaultParams
        /\ call \in {Pending("Sky.getDeclination", [day |-> d]) : d \in AnomalyDays}
     \/ /\ params = Sim_defaultParams
        /\ call \in {Pending("Solo.getDeclination", [day |-> d]) : d \in DayGrid}
  /\ lastTime = 0
  /\ now = 0
  /\ dayAccumulator = 0
  /\ info = Sim_frameInfo(Sim_defaultParams)
  /\ Solo_constructor /\ Sky_constructor

DeclinationNext ==
  Sim_callGetSolarDeclination \/ Sky_callGetDeclination \/ Solo_callGetDeclination

DeclinationSpec == DeclinationInit /\ [][DeclinationNext]_vars

TraceLatitudes == {-66500000, 40 * Scale}
TraceDayInputs == {1 * Scale, 365 * Scale}

TraceCacheNext ==
  \/ \E v \in TraceLatitudes : Solo_latitudeInput(v)
  \/ \E v \in TraceDayInputs : Solo_dayInput(v)
  \/ \E d \in PresetDays : Solo_presetClick(d)
  \/ Solo_resize
  \/ \E c \in BOOLEAN : Solo_showSolsticesChange(c)
  \/ \E c \in BOOLEAN : Solo_showEquinoxesChange(c)
  \/ \E c \in BOOLEAN : Solo_showGridChange(c)
  \/ \E c \in BOOLEAN : Solo_showHourMarkersChange(c)
  \/ \E c \in BOOLEAN : Solo_showHourTracesChange(c)
  \/ \E v \in SpeedValues : Solo_speedInput(v)
  \/ Solo_startAnimation
  \/ Solo_stopAnimation
  \/ Solo_animationFrame

TraceCacheSpec == Init /\ [][TraceCacheNext]_vars

\* C14: the cached traces are never stale: after any latitude inputs, day
\* inputs, preset clicks, checkbox changes and animation frames, hourTraces
\* is what initializeHourTraces computes for the current latitude and tilt.
TracesNeverStale == hourTraces = Solo_initializeHourTraces(latitude)

TracesRebuiltAfterFramesReached ==
  /\ latitude = -66500000
  /\ hourTraces.latitude = -66500000
  /\ animation.frames = MaxAnimationFrames
  /\ ~display.showHourTraces
  /\ dayOfYear = Scale

(***************************************************************************)
(* The hour traces and the day paths of a Solograph whose latitude has     *)
(* been set: each cached trace is read, and getSunPath is called           *)
(***************************************************************************)
TraceHours == {h * Scale : h \in 5 .. 19}
PathLatitudes == TraceLatitudes \union {90 * Scale}

TraceInit ==
  /\ latitude \in PathLatitudes
  /\ hourTraces = Solo_initializeHourTraces(latitude)
  /\ dayOfYear = 172 * Scale
  /\ times = Solo_sunTimesAt(latitude, dayOfYear)
  /\ display = Solo_defaultDisplay
  /\ animation = Solo_defaultAnimation
  /\ call \in {Pending("Solo.hourTraces", [hour |-> h]) : h \in TraceHours}
              \union {Pending("Solo.getSunPath", [day |-> d]) : d \in DaySliderValues}
  /\ Sim_constructor /\ Sky_constructor

TraceNext == Solo_callHourTrace \/ Solo_callGetSunPath

TraceSpec == TraceInit /\ [][TraceNext]_vars

\* C15: each trace built by initializeHourTraces (hours 5 .. 19) has exactly
\* 365 entries in day order: the entry at 0-based position i carries day
\* i + 1.
TraceHasEveryDayInOrder ==
  HasReturned("Solo.hourTraces") =>
    /\ Len(call.result) = 365
    /\ \A i \in 0 .. 364 : call.result[i + 1].day = (i + 1) * Scale

LastTraceReadReached ==
  /\ HasReturned("Solo.hourTraces")
  /\ call.args.hour = 19 * Scale
  /\ latitude = 90 * Scale
  /\ call.result[365].day = 365 * Scale

\* C16: getSunPath(day) returns exactly 288 points in time order: the point
\* at 0-based position k has hour 5k/60, the hours rise strictly from 0 and
\* stay below 24, and point 144 is the hour-12 point.
SunPathHasEveryStepInOrder ==
  HasReturned("Solo.getSunPath") =>
    /\ Len(call.result) = 288
    /\ \A k \in 0 .. 287 : call.result[k + 1].hour = DivInt(5 * k * Scale, 60)
    /\ call.result[1].hour = 0
    /\ \A k \in 1 .. 287 : call.result[k].hour < call.result[k + 1].hour
    /\ call.result[288].hour < 24 * Scale
    /\ call.result[145].hour = 12 * Scale

WinterPathReached ==
  /\ HasReturned("Solo.getSunPath")
  /\ call.args.day = 355 * Scale
  /\ latitude = 40 * Scale
  /\ call.result[145].altitude > 26 * Scale
  /\ call.result[145].altitude < 27 * Scale
  /\ call.result[1].altitude < 0

SamePosition(a, b) == a.altitude = b.altitude /\ a.azimuth = b.azimuth

BoundaryTilts == {-10 * Scale, 0, 23400000, 90 * Scale, 120 * Scale}
BoundaryEccentricities == {-100000, 0, 17000, Scale, 1500000}
BoundaryLatitudes == {-120 * Scale, -90 * Scale, 40 * Scale, 90 * Scale, 95 * Scale}

BoundaryNext ==
  \/ \E v \in BoundaryTilts : Sim_tiltInput(v)
  \/ \E v \in BoundaryEccentricities : Sim_eccentricityInput(v)
  \/ \E v \in BoundaryLatitudes : Sky_latitudeInput(v)

BoundarySpec == Init /\ [][BoundaryNext]_vars

\* C18: after any slider input events, with arbitrary values, the tilt is
\* in [0, 90], the eccentricity in [0, 1) and the latitude in [-90, 90].
ParametersStayInRange ==
  /\ 0 <= params.tilt /\ params.tilt <= 90 * Scale
  /\ 0 <= params.eccentricity /\ params.eccentricity < Scale
  /\ -90 * Scale <= sky.latitude /\ sky.latitude <= 90 * Scale

(***************************************************************************)
(* The query operations called one after another, in any order, on a       *)
(* Solograph whose latitude has been set and a simulation as constructed   *)
(***************************************************************************)
QueryDays == DaySliderValues
QueryAnomalies == {0, HalfPi, PI, 4 * Scale}
QueryPositions ==
  [hourAngle : {-6 * Scale, 0, 3 * Scale}, declination : {0, 409105},
   latitude : {40 * Scale}]

QueryCalls ==
  {Pending(f, [day |-> d]) :
     f \in {"Sim.getMeanAnomaly", "Sim.getSolarDeclination", "Sim.getEOTComponents",
            "Sim.getEquationOfTime", "Sim.getOrbitalSpeed", "Solo.getSunPath",
            "Solo.getSunTimes", "Solo.getNoonAltitude"},
     d \in QueryDays}
    \union {Pending("Sim.getTrueAnomaly", [meanAnomaly |-> m]) : m \in QueryAnomalies}
    \union {Pending("Solo.equatorialToHorizontal", a) : a \in QueryPositions}

QueryInit ==
  /\ latitude \in TraceLatitudes
  /\ dayOfYear = 172 * Scale
  /\ times = Solo_sunTimesAt(latitude, dayOfYear)
  /\ hourTraces = Solo_initializeHourTraces(latitude)
  /\ display = Solo_defaultDisplay
  /\ animation = Solo_defaultAnimation
  /\ Sim_constructor /\ Sky_constructor /\ call = NoCall

QueryNext ==
  \/ \E c \in QueryCalls : IssueQuery(c)
  \/ Sim_callGetMeanAnomaly
  \/ Sim_callGetTrueAnomaly
  \/ Sim_callGetSolarDeclination
  \/ Sim_callGetEOTComponents
  \/ Sim_callGetEquationOfTime
  \/ Sim_callGetOrbitalSpeed
  \/ Solo_callGetSunPath
  \/ Solo_callGetSunTimes
  \/ Solo_callGetNoonAltitude
  \/ Solo_callEquatorialToHorizontal

QuerySpec == QueryInit /\ [][QueryNext]_vars

\* the value a query returns when it is the only call made on the objects
\* as the constructors and the latitude input left them
InIsolation(c) ==
  CASE c.fn = "Sim.getMeanAnomaly" -> Sim_getMeanAnomaly(Sim_defaultParams, c.args.day)
    [] c.fn = "Sim.getTrueAnomaly" -> Sim_getTrueAnomaly(Sim_defaultParams, c.args.meanAnomaly)
    [] c.fn = "Sim.getSolarDeclination" -> Sim_getSolarDeclination(Sim_defaultParams, c.args.day)
    [] c.fn = "Sim.getEOTComponents" -> Sim_getEOTComponents(Sim_defaultParams, c.args.day)
    [] c.fn = "Sim.getEquationOfTime" -> Sim_getEquationOfTime(Sim_defaultParams, c.args.day)
    [] c.fn = "Sim.getOrbitalSpeed" -> Sim_getOrbitalSpeed(Sim_defaultParams, c.args.day)
    [] c.fn = "Solo.getSunPath" -> Solo_getSunPath(c.args.day, hourTraces.latitude)
    [] c.fn = "Solo.getSunTimes" -> Solo_getSunTimes(hourTraces.latitude, c.args.day)
    [] c.fn = "Solo.getNoonAltitude" -> Solo_getNoonAltitude(hourTraces.latitude, c.args.day)
    [] c.fn = "Solo.equatorialToHorizontal" ->
         Solo_equatorialToHorizontal(c.args.hourAngle, c.args.declination, c.args.latitude)

\* C19: the query operations are side-effect free: a call of any of them
\* leaves every field of its object unchanged (parameters, latitude, current
\* day, cached traces, checkbox and animation state), and after any sequence
\* of such calls a call returns what it returns in isolation.
QueriesAreSideEffectFree ==
  /\ [][UNCHANGED <<soloVars, simVars, skyVars>>]_vars
  /\ [](call.status = "returned" => call.result = InIsolation(call))
  /\ [](/\ dayOfYear = 172 * Scale
        /\ params = Sim_defaultParams
        /\ animation = Solo_defaultAnimation
        /\ display = Solo_defaultDisplay
        /\ hourTraces.latitude = latitude)

SunTimesAskedForAnotherDayReached ==
  /\ HasReturned("Solo.getSunTimes")
  /\ call.args.day = 355 * Scale
  /\ latitude = -66500000
  /\ call.result.dayLength > 20 * Scale
  /\ dayOfYear = 172 * Scale

(***************************************************************************)
(* Both copies of equatorialToHorizontal over hour angles, declinations    *)
(* and latitudes that include the poles and the sun at the zenith          *)
(***************************************************************************)
TransformHourAngles == {-6 * Scale, -3 * Scale, 0, 3 * Scale}
TransformDeclinations == {-409105, 0, 409105}
TransformLatitudes == {-90 * Scale, 0, 23440000, 40 * Scale, 90 * Scale}

TransformArguments ==
  [hourAngle : TransformHourAngles, declination : TransformDeclinations,
   latitude : TransformLatitudes]

TransformInit ==
  /\ call \in {Pending(f, a) : f \in {"Sky.equatorialToHorizontal",
                                       "Solo.equatorialToHorizontal"},
                               a \in TransformArguments}
  /\ Solo_constructor /\ Sim_constructor /\ Sky_constructor

TransformNext == Sky_callEquatorialToHorizontal \/ Solo_callEquatorialToHorizontal

TransformSpec == TransformInit /\ [][TransformNext]_vars

\* the altitude in radians and the two divisors of a returned call
AltitudeOf(c) == Asin(Clamp(SinAltitude(ToRad(c.args.hourAngle * 15),
                                        c.args.declination, ToRad(c.args.latitude))))
CosAzDivisorOf(c) ==
  IF c.fn = "Sky.equatorialToHorizontal"
    THEN Sky_cosAzDivisor(ToRad(c.args.latitude), Cos(AltitudeOf(c)))
    ELSE Mul(Cos(ToRad(c.args.latitude)), Cos(AltitudeOf(c))) + Solo_epsilon
SinAzDivisorOf(c) ==
  IF c.fn = "Sky.equatorialToHorizontal"
    THEN Cos(AltitudeOf(c))
    ELSE Cos(AltitudeOf(c)) + Solo_epsilon

Sky_getMeanAnomalyWith(q, day) ==
  ToRad(MulDivInt(JsMod(day - q * Scale + DaysPerYear * Scale, DaysPerYear * Scale),
                  360, DaysPerYear))

\* SkySimulation.getTrueAnomaly(M) with this.eccentricity = e
Sky_getTrueAnomalyWith(e, M) ==
  M + Mul(2 * e, Sin(M)) + Mul(Mul(Mul(1250000, e), e), Sin(2 * M))

\* solarLongitude = v + perihelionLongitude + Math.PI of getDeclination
Sky_solarLongitudeWith(e, q, day) ==
  Sky_getTrueAnomalyWith(e, Sky_getMeanAnomalyWith(q, day))
    + ToRad(MulDivInt((q - springEquinox) * Scale, 360, DaysPerYear)) + PI

\* what getDeclination computes from its solarLongitude
Sky_declinationAt(solarLongitude) ==
  Asin(Mul(Sin(ToRad(Sky_tilt)), Sin(solarLongitude)))

\* the angle of Solograph.getDeclination
Solo_angle(day) == ToRad(MulDivInt(day - springEquinox * Scale, 360, 365))

\* AnalemmaSimulation.getSolarLongitude(day) and getSolarDeclination(day)
Sim_callGetSolarLongitude ==
  /\ IsPending("Sim.getSolarLongitude")
  /\ call' = Returned(call,
       [longitude |-> Sim_getSolarLongitude(params, call.args.day),
        declination |-> Sim_getSolarDeclination(params, call.args.day)])
  /\ UNCHANGED <<soloVars, simVars, skyVars>>

\* SkySimulation.getDeclination(day) on an object whose eccentricity and
\* perihelionDay fields are those of the call, with its solarLongitude
Sky_callSolarLongitude ==
  /\ IsPending("Sky.solarLongitude")
  /\ call' = Returned(call,
       [longitude |-> Sky_solarLongitudeWith(call.args.eccentricity,
                         call.args.perihelionDay, call.args.day),
        declination |-> ToDeg(Sky_declinationAt(Sky_solarLongitudeWith(
                         call.args.eccentricity, call.args.perihelionDay,
                         call.args.day)))])
  /\ UNCHANGED <<soloVars, simVars, skyVars>>

\* Solograph.getDeclination(day), with its angle
Solo_callAngle ==
  /\ IsPending("Solo.angle")
  /\ call' = Returned(call,
       [longitude |-> Solo_angle(call.args.day),
        declination |-> ToDeg(Solo_getDeclination(call.args.day))])
  /\ UNCHANGED <<soloVars, simVars, skyVars>>

LongitudeDays == {0, 80 * Scale, 172 * Scale, 266 * Scale, 355 * Scale, 364 * Scale}
LongitudePerihelionDays == {1, 3, 80, 200, 365}

\* the three objects with tilt 23.44 and eccentricity 0
LongitudeInit ==
  /\ Solo_constructor /\ Sky_constructor
  /\ lastTime = 0
  /\ now = 0
  /\ dayAccumulator = 0
  /\ info = Sim_frameInfo(Sim_defaultParams)
  /\ \E q \in LongitudePerihelionDays, d \in LongitudeDays :
       /\ params = [Sim_defaultParams EXCEPT !.tilt = Solo_tilt, !.eccentricity = 0,
                                             !.perihelionDay = q]
       /\ call \in {Pending("Sim.getSolarLongitude", [day |-> d]),
                    Pending("Sky.solarLongitude",
                            [eccentricity |-> 0, perihelionDay |-> q, day |-> d]),
                    Pending("Solo.angle", [day |-> d])}

LongitudeNext == Sim_callGetSolarLongitude \/ Sky_callSolarLongitude \/ Solo_callAngle

LongitudeSpec == LongitudeInit /\ [][LongitudeNext]_vars

\* the distance of two angles modulo a full turn
AngleDistance(a, b) ==
  IF Abs(JsMod(a - b, TwoPi)) > PI THEN TwoPi - Abs(JsMod(a - b, TwoPi))
  ELSE Abs(JsMod(a - b, TwoPi))

\* C21: with eccentricity 0 the solar longitude of each implementation is
\* the mean ecliptic longitude 2 pi (day - 80) / 365 modulo a full turn (up
\* to the rounding of the arithmetic), for every day and perihelionDay, and
\* the three implementations return the same declination with the same sign.
LongitudeIsMeanLongitude ==
  call.status = "returned" =>
    /\ AngleDistance(call.result.longitude, Sim_meanLongitude(call.args.day)) <= 8
    /\ Abs(call.result.declination - ToDeg(Solo_getDeclination(call.args.day))) <= 8

(***************************************************************************)
(* The dashboard's day counter under frames, play/pause and reset: frames  *)
(* FrameMillis apart, and frames that arrive after a longer gap (the first *)
(* frame after the page load, a tab that was in the background)            *)
(***************************************************************************)
LateFrameMillis == 900

\* the frame callback that runs LateFrameMillis after the latest one
Sim_animateLate ==
  /\ now < MaxFrames * FrameMillis * Scale
  /\ Sim_frame(now + LateFrameMillis * Scale,
               dayAccumulator + Mul(Mul(now + LateFrameMillis * Scale - lastTime, 12000),
                                    params.speed))

WrapStartDays == {0, 100 * Scale, 363 * Scale, 364 * Scale}
WrapSpeeds == {0, Scale, 5 * Scale}

DayWrapInit ==
  /\ params \in {[Sim_defaultParams EXCEPT !.currentDay = d, !.speed = s] :
                   d \in WrapStartDays, s \in WrapSpeeds}
  /\ lastTime = 0
  /\ now = 0
  /\ dayAccumulator = 0
  /\ info = Sim_frameInfo(params)
  /\ Solo_constructor /\ Sky_constructor /\ call = NoCall

DayWrapNext ==
  \/ Sim_animate
  \/ Sim_animateLate
  \/ Sim_playPauseClick
  \/ Sim_resetClick

DayWrapSpec == DayWrapInit /\ [][DayWrapNext]_vars

\* deltaTime * 0.012 * speed of the frame that is being taken
FrameGain == Mul(Mul(lastTime' - lastTime, 12000), params.speed)

\* C22: currentDay is always an integer of [0, 365), and a frame taken while
\* playing that advances by n whole days sets it to (currentDay + n) mod 365:
\* day and accumulator together advance by the frame's gain modulo 365.
CurrentDayWrapsModulo365 ==
  /\ [](/\ params.currentDay % Scale = 0
        /\ 0 <= params.currentDay
        /\ params.currentDay < 365 * Scale)
  /\ [][(lastTime' # lastTime /\ params.isPlaying) =>
          /\ params'.currentDay =
               (params.currentDay + ((dayAccumulator + FrameGain) \div Scale) * Scale)
                 % (365 * Scale)
          /\ params'.currentDay + dayAccumulator' =
               (params.currentDay + dayAccumulator + FrameGain) % (365 * Scale)]_vars

CurrentDayWrappedReached ==
  /\ params.currentDay = 52 * Scale
  /\ params.speed = 5 * Scale
  /\ lastTime = LateFrameMillis * Scale
  /\ params.isPlaying

(***************************************************************************)
(* The Solograph's year animation near the end of the year: day slider     *)
(* inputs, speed inputs, the two animation buttons and the frames          *)
(***************************************************************************)
YearEndDays == {d * Scale : d \in {1, 172, 355} \union (358 .. 364)}

YearWrapNext ==
  \/ \E v \in YearEndDays : Solo_dayInput(v)
  \/ \E v \in SpeedValues : Solo_speedInput(v)
  \/ Solo_startAnimation
  \/ Solo_stopAnimation
  \/ Solo_animationFrame

YearWrapSpec == Init /\ [][YearWrapNext]_vars

\* delta * 30 * animationSpeed of a frame
YearFrameGain == Mul(Mul(FrameMillis * Kilo, 30 * Scale), animation.animationSpeed)

\* C23: a frame of the year animation taken with dayOfYear in [0, 365)
\* leaves it in [0, 365), and wraps modulo 365 at the end of the year: the
\* new day is (dayOfYear + advance) mod 365, the excess carried over.
YearWrapsModulo365 ==
  [][(animation'.frames # animation.frames /\ dayOfYear < 365 * Scale) =>
       /\ 0 <= dayOfYear' /\ dayOfYear' < 365 * Scale
       /\ dayOfYear' = (dayOfYear + YearFrameGain) % (365 * Scale)]_vars

(***************************************************************************)
(* getOrbitalSpeed over every day, for the eccentricities and perihelion   *)
(* days of the sliders' ranges, and drawOrbit's call at the perihelion day *)
(***************************************************************************)
\* drawOrbit: const periSpeed = this.getOrbitalSpeed(this.params.perihelionDay)
Sim_callPerihelionSpeed ==
  /\ IsPending("Sim.drawOrbit.periSpeed")
  /\ call' = Returned(call, Sim_getOrbitalSpeed(params, params.perihelionDay * Scale))
  /\ UNCHANGED <<soloVars, simVars, skyVars>>

OrbitEccentricities == {0, 17000, 200000}
OrbitPerihelionDays == {1, 3, 200, 365}

OrbitalSpeedInit ==
  /\ params \in {[Sim_defaultParams EXCEPT !.eccentricity = e, !.perihelionDay = q] :
                   e \in OrbitEccentricities, q \in OrbitPerihelionDays}
  /\ call \in {Pending("Sim.getOrbitalSpeed", [day |-> d]) : d \in SimDays}
                \union {Pending("Sim.drawOrbit.periSpeed", [day |-> 0])}
  /\ lastTime = 0
  /\ now = 0
  /\ dayAccumulator = 0
  /\ info = Sim_frameInfo(Sim_defaultParams)
  /\ Solo_constructor /\ Sky_constructor

OrbitalSpeedNext == Sim_callGetOrbitalSpeed \/ Sim_callPerihelionSpeed

OrbitalSpeedSpec == OrbitalSpeedInit /\ [][OrbitalSpeedNext]_vars

\* C24: getOrbitalSpeed(day) is 1 + e cos(trueAnomaly(meanAnomaly(day))) and
\* lies in [1 - e, 1 + e] on every day; at the perihelion day the mean and
\* the true anomaly are 0 and the speed is its maximum 1 + e, at least 1.
OrbitalSpeedWithinEccentricity ==
  /\ HasReturned("Sim.getOrbitalSpeed") =>
       /\ call.result = Scale + Mul(params.eccentricity,
            Cos(Sim_getTrueAnomaly(params, Sim_getMeanAnomaly(params, call.args.day))))
       /\ Scale - params.eccentricity <= call.result
       /\ call.result <= Scale + params.eccentricity
       /\ call.args.day = params.perihelionDay * Scale =>
            /\ Sim_getMeanAnomaly(params, call.args.day) = 0
            /\ Sim_getTrueAnomaly(params, 0) = 0
            /\ call.result = Scale + params.eccentricity
  /\ HasReturned("Sim.drawOrbit.periSpeed") =>
       /\ Sim_getMeanAnomaly(params, params.perihelionDay * Scale) = 0
       /\ call.result = Scale + params.eccentricity
       /\ call.result >= Scale

PerihelionSpeedReached ==
  /\ HasReturned("Sim.drawOrbit.periSpeed")
  /\ params.perihelionDay = 365
  /\ params.eccentricity = 200000
  /\ call.result = 1200000

(***************************************************************************)
(* The texts drawCurrentDay writes into the info display.  A text is the   *)
(* sequence of its characters.                                             *)
(***************************************************************************)
DigitChars == <<"0", "1", "2", "3", "4", "5", "6", "7", "8", "9">>

\* n.toString() of an integer 0 <= n < 1000
NumText(n) ==
  IF n < 10 THEN <<DigitChars[n + 1]>>
  ELSE IF n < 100 THEN <<DigitChars[(n \div 10) + 1], DigitChars[(n % 10) + 1]>>
  ELSE <<DigitChars[(n \div 100) + 1], DigitChars[((n \div 10) % 10) + 1],
         DigitChars[(n % 10) + 1]>>

\* s.padStart(2, '0')
PadStart2(s) == IF Len(s) < 2 THEN <<"0">> \o s ELSE s

\* Math.floor(x) and Math.round(x) of a fixed-point x, as integers
JsFloor(x) == x \div Scale
JsRound(x) == (x + Scale \div 2) \div Scale

\* the template `${h...}:${m...}` of formatTime
ClockText(h, m) == PadStart2(NumText(h)) \o <<":">> \o PadStart2(NumText(m))

\* Solograph.formatTime(hours): h = floor(hours), m = round((hours - h) * 60)
formatTime(hours) ==
  ClockText(JsFloor(hours), JsRound((hours - JsFloor(hours) * Scale) * 60))

\* times.neverRises, times.neverSets: undefined when the object has no such field
Truthy(t, flag) == flag \in DOMAIN t /\ t[flag]

\* `${hours}h ${mins}m` with hours = floor(dayLength), mins = round of the rest
DayLengthText(dayLength) ==
  NumText(JsFloor(dayLength)) \o <<"h", " ">>
    \o NumText(JsRound((dayLength - JsFloor(dayLength) * Scale) * 60)) \o <<"m">>

\* an info display that formats the times whatever the flags
Solo_infoDisplay_unbranched(t) ==
  [sunriseTime |-> formatTime(t.sunrise),
   sunsetTime |-> formatTime(t.sunset),
   noonTime |-> <<"1", "2", ":", "0", "0">>,
   dayLength |-> DayLengthText(t.dayLength)]

\* drawCurrentDay's "Update info display": the textContent of sunriseTime,
\* sunsetTime, noonTime and dayLength for times = getSunTimes(dayOfYear)
Solo_infoDisplay(t) ==
  [sunriseTime |->
     IF Truthy(t, "neverRises") THEN <<"N", "e", "v", "e", "r">>
     ELSE IF Truthy(t, "neverSets") THEN <<"0", "0", ":", "0", "0">>
     ELSE formatTime(t.sunrise),
   sunsetTime |->
     IF Truthy(t, "neverRises") THEN <<"N", "e", "v", "e", "r">>
     ELSE IF Truthy(t, "neverSets") THEN <<"2", "4", ":", "0", "0">>
     ELSE formatTime(t.sunset),
   noonTime |-> <<"1", "2", ":", "0", "0">>,
   dayLength |->
     IF Truthy(t, "neverRises") THEN <<"0", "h", " ", "0", "m">>
     ELSE DayLengthText(t.dayLength)]

\* C25: the display branches on the flags before formatting: with neverRises
\* sunrise and sunset read 'Never' and the day length '0h 0m'; with neverSets
\* they read '00:00' and '24:00'; only an unflagged result's sunrise and
\* sunset are formatted by formatTime.
DisplayBranchesOnFlags ==
  /\ Truthy(times, "neverRises") =>
       /\ Solo_infoDisplay(times).sunriseTime = <<"N", "e", "v", "e", "r">>
       /\ Solo_infoDisplay(times).sunsetTime = <<"N", "e", "v", "e", "r">>
       /\ Solo_infoDisplay(times).dayLength = <<"0", "h", " ", "0", "m">>
  /\ Truthy(times, "neverSets") =>
       /\ Solo_infoDisplay(times).sunriseTime = <<"0", "0", ":", "0", "0">>
       /\ Solo_infoDisplay(times).sunsetTime = <<"2", "4", ":", "0", "0">>
  /\ (~Truthy(times, "neverRises") /\ ~Truthy(times, "neverSets")) =>
       /\ Solo_infoDisplay(times).sunriseTime = formatTime(times.sunrise)
       /\ Solo_infoDisplay(times).sunsetTime = formatTime(times.sunset)

PolarNightDisplayedReached ==
  /\ latitude = 67 * Scale
  /\ dayOfYear = 355 * Scale
  /\ Truthy(times, "neverRises")
  /\ times.sunrise = 12 * Scale
  /\ Solo_infoDisplay(times).sunriseTime = <<"N", "e", "v", "e", "r">>

(***************************************************************************)
(* formatTime of both pages over the hours of a day in steps of 1/200 hour *)
(***************************************************************************)
\* SkySimulation.formatTime(hour): h = floor(hour), m = round((hour - h) * 60)
Sky_formatTime(hour) ==
  PadStart2(NumText(JsFloor(hour))) \o <<":">>
    \o PadStart2(NumText(JsRound((hour - JsFloor(hour) * Scale) * 60)))

Solo_callFormatTime ==
  /\ IsPending("Solo.formatTime")
  /\ call' = Returned(call, formatTime(call.args.hours))
  /\ UNCHANGED <<soloVars, simVars, skyVars>>

Sky_callFormatTime ==
  /\ IsPending("Sky.formatTime")
  /\ call' = Returned(call, Sky_formatTime(call.args.hours))
  /\ UNCHANGED <<soloVars, simVars, skyVars>>

ClockHours == {k * 5000 : k \in 0 .. 24 * 200}

ClockInit ==
  /\ call \in {Pending(f, [hours |-> h]) :
                 f \in {"Solo.formatTime", "Sky.formatTime"}, h \in ClockHours}
  /\ Solo_constructor /\ Sim_constructor /\ Sky_constructor

ClockNext == Solo_callFormatTime \/ Sky_callFormatTime

ClockSpec == ClockInit /\ [][ClockNext]_vars

\* the number a text of digits reads
DigitValue(c) == CHOOSE i \in 0 .. 9 : DigitChars[i + 1] = c
RECURSIVE TextValue(_)
TextValue(s) ==
  IF s = <<>> THEN 0
  ELSE 10 * TextValue(SubSeq(s, 1, Len(s) - 1)) + DigitValue(s[Len(s)])

\* the hours and minutes fields of a text hh:mm
HoursField(text) == TextValue(SubSeq(text, 1, 2))
MinutesField(text) == TextValue(SubSeq(text, 4, Len(text)))

\* C30: formatTime yields a valid clock reading for every hour of [0, 24]:
\* the text is hh:mm with the minutes in 00..59, and hours * 60 + minutes is
\* the input rounded to the nearest minute.
ClockReadingIsValid ==
  call.status = "returned" =>
    /\ Len(call.result) = 5
    /\ call.result[3] = ":"
    /\ MinutesField(call.result) \in 0 .. 59
    /\ HoursField(call.result) * 60 + MinutesField(call.result)
         = JsRound(call.args.hours * 60)

(***************************************************************************)
(* The animation loops of the Solograph and the sky page under every       *)
(* interleaving of the animate and stop buttons and the frame callbacks    *)
(***************************************************************************)
AnimationHours == {12 * Scale, 19990000}

AnimationNext ==
  \/ Solo_startAnimation
  \/ Solo_stopAnimation
  \/ Solo_animationFrame
  \/ \E v \in SpeedValues : Solo_speedInput(v)
  \/ Sky_startAnimation
  \/ Sky_stopAnimation
  \/ Sky_animationFrame
  \/ \E v \in AnimationHours : Sky_hourInput(v)

AnimationSpec == Init /\ [][AnimationNext]_vars

\* at most one frame callback of the loop a is pending, and it is the one
\* whose id the object holds
OneCallback(a) ==
  /\ Cardinality(a.pending) <= 1
  /\ a.pending \subseteq {a.animationId}
  /\ a.pending # {} => a.isAnimating

\* a step of the loop from a to b while it is animating: a new frame is
\* requested only by the callback that has just run, never by a click
NoSecondLoop(a, b) ==
  (a.isAnimating /\ b.isAnimating /\ b.requested # a.requested) =>
    b.pending \intersect a.pending = {}

\* C26: in the Solograph and in SkySimulation at most one animation loop is
\* live: at most one frame callback is pending, a startAnimation while
\* animating starts nothing, and while the animation is stopped no frame
\* callback changes dayOfYear or hour.
AtMostOneAnimationLoop ==
  /\ [](OneCallback(animation) /\ OneCallback(sky))
  /\ [][NoSecondLoop(animation, animation') /\ NoSecondLoop(sky, sky')]_vars
  /\ [][~animation.isAnimating => dayOfYear' = dayOfYear]_vars
  /\ [][(~sky.isAnimating /\ sky'.pending # sky.pending) =>
          sky'.hour = sky.hour]_vars

RestartedLoopsReached ==
  /\ animation.isAnimating /\ animation.pending = {MaxRequests}
  /\ animation.frames = 0
  /\ sky.isAnimating /\ sky.pending = {MaxRequests}
  /\ sky.hour = 4 * Scale

\* C27: a frame taken while paused leaves currentDay and dayAccumulator as
\* they are and the next frame stays scheduled; lastTime is the time of the
\* latest frame, paused or not, so a frame taken while playing adds only
\* the time since the frame before it, not the time spent paused.
PausedTimeNotAdded ==
  /\ [][(now' # now /\ ~params.isPlaying) =>
          /\ params'.currentDay = params.currentDay
          /\ dayAccumulator' = dayAccumulator]_vars
  /\ [](lastTime = now)
  /\ []((~params.isPlaying /\ now < MaxFrames * FrameMillis * Scale) =>
          ENABLED Sim_animate)
  /\ [][(now' # now /\ params.isPlaying) =>
          params'.currentDay + dayAccumulator' =
            (params.currentDay + dayAccumulator
               + Mul(Mul(now' - now, 12000), params.speed)) % (365 * Scale)]_vars

ResumedAfterPausedFrameReached ==
  /\ params.isPlaying
  /\ params.speed = Scale
  /\ now = (FrameMillis + LateFrameMillis) * Scale
  /\ params.currentDay = 110 * Scale
  /\ dayAccumulator = 800000

(***************************************************************************)
(* The dashboard under all of its controls and its frames, each slider     *)
(* with a value other than the constructor's                               *)
(***************************************************************************)
DashboardNext ==
  \/ Sim_tiltInput(45 * Scale)
  \/ Sim_eccentricityInput(0)
  \/ Sim_perihelionInput(200)
  \/ Sim_speedInput(2 * Scale)
  \/ Sim_dayInput(172 * Scale)
  \/ \E c \in BOOLEAN : Sim_showTiltChange(c)
  \/ \E c \in BOOLEAN : Sim_showEccentricityChange(c)
  \/ Sim_playPauseClick
  \/ Sim_resetClick
  \/ Sim_animate

DashboardSpec == Init /\ [][DashboardNext]_vars

\* C28: from every reachable state the reset button sets tilt, eccentricity,
\* perihelionDay, speed and currentDay to the constructor's 23.4, 0.017, 3, 1
\* and 0, and leaves isPlaying, the two component toggles, dayAccumulator
\* and lastTime as they are.
ResetRestoresDefaults ==
  ENABLED (/\ Sim_resetClick
           /\ params'.tilt = 23400000 /\ params'.tilt = Sim_defaultParams.tilt
           /\ params'.eccentricity = 17000
           /\ params'.eccentricity = Sim_defaultParams.eccentricity
           /\ params'.perihelionDay = 3
           /\ params'.perihelionDay = Sim_defaultParams.perihelionDay
           /\ params'.speed = Scale /\ params'.speed = Sim_defaultParams.speed
           /\ params'.currentDay = 0
           /\ params'.currentDay = Sim_defaultParams.currentDay
           /\ params'.isPlaying = params.isPlaying
           /\ params'.showTiltComponent = params.showTiltComponent
           /\ params'.showEccentricityComponent = params.showEccentricityComponent
           /\ dayAccumulator' = dayAccumulator
           /\ lastTime' = lastTime)

ResetWhilePausedReached ==
  /\ params = [Sim_defaultParams EXCEPT !.isPlaying = FALSE,
                                        !.showTiltComponent = FALSE]
  /\ dayAccumulator = 200000
  /\ lastTime = MaxFrames * FrameMillis * Scale
  /\ info.components.eccentricity = 0

(***************************************************************************)
(* AnalemmaSimulation.getDayMonth over every day of the year, and over two *)
(* days past its end, where the fallback to January is taken               *)
(***************************************************************************)
\* this.months and this.daysInMonth of the constructor
months == <<"Jan", "Feb", "Mar", "Apr", "May", "Jun",
            "Jul", "Aug", "Sep", "Oct", "Nov", "Dec">>
daysInMonth == <<31, 28, 31, 30, 31, 30, 31, 31, 30, 31, 30, 31>>

\* while (month < 12 && day >= this.daysInMonth[month])
\*   { day -= this.daysInMonth[month]; month++; }
\* from the given day (fixed point) and month (counted from 0)
RECURSIVE Sim_dayMonthLoop(_, _)
Sim_dayMonthLoop(day, month) ==
  IF month < 12 /\ day >= daysInMonth[month + 1] * Scale
    THEN Sim_dayMonthLoop(day - daysInMonth[month + 1] * Scale, month + 1)
    ELSE [day |-> day, month |-> month]

\* if (month >= 12) { month = 0; day = dayOfYear; }
Sim_dayMonthFallback(ofYear, end) ==
  IF end.month >= 12 THEN [day |-> ofYear, month |-> 0] ELSE end

\* return { month: this.months[month], day: Math.floor(day) + 1 }
Sim_dayMonthResult(found) ==
  [month |-> months[found.month + 1], day |-> JsFloor(found.day) + 1]

\* a getDayMonth that returns the day counted from 0
Sim_getDayMonth_fromZero(ofYear) ==
  [month |-> Sim_dayMonthResult(Sim_dayMonthFallback(ofYear,
                                  Sim_dayMonthLoop(ofYear, 0))).month,
   day |-> Sim_dayMonthResult(Sim_dayMonthFallback(ofYear,
                                  Sim_dayMonthLoop(ofYear, 0))).day - 1]

\* getDayMonth(dayOfYear), the parameter named ofYear here
Sim_getDayMonth(ofYear) ==
  Sim_dayMonthResult(Sim_dayMonthFallback(ofYear, Sim_dayMonthLoop(ofYear, 0)))

Sim_callGetDayMonth ==
  /\ IsPending("Sim.getDayMonth")
  /\ call' = Returned(call, Sim_getDayMonth(call.args.dayOfYear))
  /\ UNCHANGED <<soloVars, simVars, skyVars>>

CalendarDays == SimDays \union {365 * Scale, 400 * Scale}

CalendarInit ==
  /\ call \in {Pending("Sim.getDayMonth", [dayOfYear |-> d]) : d \in CalendarDays}
  /\ Solo_constructor /\ Sim_constructor /\ Sky_constructor

CalendarSpec == CalendarInit /\ [][Sim_callGetDayMonth]_vars

\* the index, counted from 0, of a month name, and the days before a month
MonthIndex(name) == CHOOSE m \in 0 .. 11 : months[m + 1] = name
RECURSIVE DaysBefore(_)
DaysBefore(m) == IF m = 0 THEN 0 ELSE DaysBefore(m - 1) + daysInMonth[m]

\* C29: for every integer dayOfYear of 0 .. 364 getDayMonth returns the date
\* of the non-leap year: month m and day d with 1 <= d <= daysInMonth[m] and
\* (days before m) + d - 1 = dayOfYear; the fallback to January for
\* month >= 12 is not taken.
DayMonthIsCalendarDate ==
  (HasReturned("Sim.getDayMonth") /\ call.args.dayOfYear \in SimDays) =>
    /\ call.result.month \in {months[i] : i \in 1 .. 12}
    /\ 1 <= call.result.day
    /\ call.result.day <= daysInMonth[MonthIndex(call.result.month) + 1]
    /\ DaysBefore(MonthIndex(call.result.month)) + call.result.day - 1
         = call.args.dayOfYear \div Scale
    /\ Sim_dayMonthLoop(call.args.dayOfYear, 0).month < 12

LastDayOfYearReached ==
  /\ HasReturned("Sim.getDayMonth")
  /\ call.args.dayOfYear = 364 * Scale
  /\ call.result = [month |-> "Dec", day |-> 31]

====
